---- MODULE Spec2Model ----
(***************************************************************************)
(* Session registry, sandbox provisioning, kill, run-command and the       *)
(* streaming package installer of edu-bricks, as a state machine.          *)
(*                                                                         *)
(* The process-wide globals (global.activeSandbox, global.sandboxData,     *)
(* global.existingFiles, global.sandboxState) are the shared state.  Every *)
(* route handler is cut at its `await` points: the code between two awaits *)
(* runs as one step of the single-threaded event loop, and any other       *)
(* handler may run between two steps.                                      *)
(*                                                                         *)
(* JavaScript strings are sequences of one-character strings, so that      *)
(* trim, split and startsWith are computed and not assumed.                *)
(***************************************************************************)
EXTENDS Integers, Sequences, FiniteSets, TLC

\* ---------------------------------------------------------------- bounds
\* Number of sandbox handles (live, mock or reconnected) one run may create.
MaxSessions == 2
\* Longest `packages` array of an install request.
MaxPkgs == 2
\* Number of requests served at the same time in a run that overlaps them.
MaxInFlight == 2
\* Longest `packages` array in a run that overlaps requests.
MaxOverlapPkgs == 1
\* Number of requests in a run that overlaps them.
MaxOverlapRequests == 3

\* --------------------------------------------------------------- strings
lodash == <<"l">>
react == <<"r">>
\* A scoped package (@scope/name, written short), and a request for it that
\* names a version.
scoped == <<"@", "s">>
scopedAt1 == <<"@", "s", "@", "1">>

RECURSIVE TrimStart(_)
TrimStart(s) ==
    IF s = <<>> THEN s
    ELSE IF Head(s) = " " THEN TrimStart(Tail(s)) ELSE s

RECURSIVE TrimEnd(_)
TrimEnd(s) ==
    IF s = <<>> THEN s
    ELSE IF s[Len(s)] = " " THEN TrimEnd(SubSeq(s, 1, Len(s) - 1)) ELSE s

\* String.prototype.trim
trim(s) == TrimEnd(TrimStart(s))

\* A JavaScript value that may sit in the `packages` array.
JsString(s) == [ty |-> "string", s |-> s]
JsNumber7 == [ty |-> "number", s |-> <<"7">>]

\* `pkg && typeof pkg === 'string' && pkg.trim() !== ''`
IsValidEntry(pkg) ==
    /\ pkg.ty = "string"
    /\ pkg.s # <<>>
    /\ trim(pkg.s) # <<>>

\* [...new Set(packages)]: first occurrences, in insertion order.
RECURSIVE SetOrder(_)
SetOrder(packages) ==
    IF packages = <<>> THEN <<>>
    ELSE LET init == SetOrder(SubSeq(packages, 1, Len(packages) - 1))
             last == packages[Len(packages)]
         IN  IF \E i \in 1..Len(init) : init[i] = last
             THEN init
             ELSE Append(init, last)

RECURSIVE FilterValid(_)
FilterValid(entries) ==
    IF entries = <<>> THEN <<>>
    ELSE IF IsValidEntry(Head(entries))
         THEN <<Head(entries)>> \o FilterValid(Tail(entries))
         ELSE FilterValid(Tail(entries))

TrimAll(entries) == [i \in 1..Len(entries) |-> trim(entries[i].s)]

\* validPackages of the install route.
ValidPackages(packages) == TrimAll(FilterValid(SetOrder(packages)))

\* ----------------------------------------------------------- environment
\* process.env as one call reads it.  E2B_API_KEY is one of: unset or '' 
\* ("missing"), whitespace only ("blank"), the placeholder of the example
\* file ("placeholder"), shorter than 10 characters without the e2b_ prefix
\* ("short"), or a usable key ("valid").
KeyKinds == {"missing", "blank", "placeholder", "short", "valid"}
Envs == [DEMO_MODE : BOOLEAN, NETLIFY : BOOLEAN, key : KeyKinds]

\* Mutant of validateE2BApiKey: any key that is set passes.
validateE2BApiKeyAnySet(key) == key # "missing"

\* validateE2BApiKey().valid
validateE2BApiKey(key) ==
    /\ key # "missing"
    /\ key \notin {"blank", "placeholder"}
    /\ key # "short"

\* Mutant of IsDemoEnv: a missing key is no longer demo mode.
IsDemoEnvKeyRequired(env) == env.DEMO_MODE \/ env.NETLIFY

\* const isDemo = DEMO_MODE === 'true' || !E2B_API_KEY || isNetlify
IsDemoEnv(env) == env.DEMO_MODE \/ env.key = "missing" \/ env.NETLIFY

\* ------------------------------------------------------- manifest builder
\* Most files one enumeration returns or skips.
MaxFiles == 2

\* Most files one enumeration returns or skips in a run that overlaps
\* requests.
MaxOverlapFiles == 0

\* `if len(content) < 50000`
SizeLimit == 50000

StartsWith(s, p) == Len(s) >= Len(p) /\ SubSeq(s, 1, Len(p)) = p
EndsWith(s, p) == Len(s) >= Len(p) /\ SubSeq(s, Len(s) - Len(p) + 1, Len(s)) = p
DropPrefix(s, p) == IF StartsWith(s, p) THEN SubSeq(s, Len(p) + 1, Len(s)) ELSE s
DropSuffix(s, p) == IF EndsWith(s, p) THEN SubSeq(s, 1, Len(s) - Len(p)) ELSE s

dotJs == <<".", "j", "s">>
dotJsx == <<".", "j", "s", "x">>
dotTs == <<".", "t", "s">>
dotTsx == <<".", "t", "s", "x">>
dotCss == <<".", "c", "s", "s">>
srcSlash == <<"s", "r", "c", "/">>
pagesSlash == <<"p", "a", "g", "e", "s", "/">>
indexWord == <<"i", "n", "d", "e", "x">>
AppDir == <<"/", "h", "o", "m", "e", "/", "u", "s", "e", "r", "/", "a", "p", "p", "/">>

\* The relative paths of the files a project tree may hold.
srcMainJsx == srcSlash \o <<"m", "a", "i", "n">> \o dotJsx
srcIndexJsx == srcSlash \o indexWord \o dotJsx
srcAppJsx == srcSlash \o <<"A", "p", "p">> \o dotJsx
AppJsx == <<"A", "p", "p">> \o dotJsx
pagesAboutJsx == pagesSlash \o <<"a", "b", "o", "u", "t">> \o dotJsx
pagesIndexJsx == pagesSlash \o indexWord \o dotJsx
srcPagesBlogIndexTsx == srcSlash \o pagesSlash \o <<"b", "/">> \o indexWord \o dotTsx
pagesStylesCss == pagesSlash \o <<"s">> \o dotCss
srcBigJs == srcSlash \o <<"b", "i", "g">> \o dotJs
srcWideJs == srcSlash \o <<"w", "i", "d", "e">> \o dotJs

\* A file of the tree: its path below /home/user/app, the length of its
\* text in characters (what Python's len gives for a file read as utf-8
\* text) and in bytes, and what parseJavaScriptFile does with it: throws,
\* or returns the kind it found.
File(relativePath, chars, bytes, parse) ==
    [relativePath |-> relativePath, chars |-> chars, bytes |-> bytes,
     parse |-> parse]

FilePool ==
    {File(srcMainJsx, 200, 200, "utility"),
     File(srcIndexJsx, 200, 200, "threw"),
     File(srcAppJsx, 300, 300, "component"),
     File(AppJsx, 300, 300, "threw"),
     File(pagesAboutJsx, 100, 100, "component"),
     File(pagesIndexJsx, 100, 100, "component"),
     File(srcPagesBlogIndexTsx, 100, 100, "threw"),
     File(pagesStylesCss, 100, 100, "none"),
     File(srcBigJs, 50001, 50001, "utility"),
     File(srcWideJs, 30000, 60000, "utility")}

RECURSIVE LastSlash(_)
LastSlash(s) ==
    IF s = <<>> THEN 0
    ELSE IF s[Len(s)] = "/" THEN Len(s)
    ELSE LastSlash(SubSeq(s, 1, Len(s) - 1))

\* The directory of a path, with its trailing slash ("" for the root).
DirOf(path) == SubSeq(path, 1, LastSlash(path))

\* os.walk, top down: the files of one directory come together, and before
\* the files of the directories below it; the order inside a directory and
\* between sibling directories is the file system's.
WalkOrder(tree) ==
    /\ \A i, j \in 1..Len(tree) :
         i < j => /\ tree[i] # tree[j]
                  /\ ~(/\ DirOf(tree[j].relativePath) # DirOf(tree[i].relativePath)
                       /\ StartsWith(DirOf(tree[i].relativePath),
                                     DirOf(tree[j].relativePath)))
    /\ \A i, j, k \in 1..Len(tree) :
         (i < j /\ j < k
            /\ DirOf(tree[i].relativePath) = DirOf(tree[k].relativePath)) =>
           StartsWith(DirOf(tree[j].relativePath), DirOf(tree[i].relativePath))

\* The project trees, each in the order the walk meets its files.
Trees ==
    {tree \in UNION {[1..n -> FilePool] : n \in 0..MaxFiles} : WalkOrder(tree)}

\* Lines 27-54, get_files_content: the files kept (files_content, in
\* insertion order) and the messages about those skipped (errors).
RECURSIVE files_content(_)
files_content(tree) ==
    IF tree = <<>> THEN <<>>
    ELSE IF Head(tree).chars < SizeLimit
         THEN <<Head(tree)>> \o files_content(Tail(tree))
         ELSE files_content(Tail(tree))

\* A message "File <path> too large (<n> bytes), skipped".
TooLarge(file) == [about |-> file.relativePath, n |-> file.chars]

RECURSIVE errors(_)
errors(tree) ==
    IF tree = <<>> THEN <<>>
    ELSE IF Head(tree).chars < SizeLimit
         THEN errors(Tail(tree))
         ELSE <<TooLarge(Head(tree))>> \o errors(Tail(tree))

\* relativePath.match(/\.(jsx?|tsx?)$/)
IsScript(relativePath) ==
    \E ext \in {dotJs, dotJsx, dotTs, dotTsx} : EndsWith(relativePath, ext)

\* .replace(/\.(jsx?|tsx?)$/, '')
DropScriptExtension(s) ==
    IF EndsWith(s, dotJsx) THEN DropSuffix(s, dotJsx)
    ELSE IF EndsWith(s, dotTsx) THEN DropSuffix(s, dotTsx)
    ELSE IF EndsWith(s, dotJs) THEN DropSuffix(s, dotJs)
    ELSE DropSuffix(s, dotTs)

\* .replace(/^(src\/)?pages\//, '')
DropPagesDir(s) ==
    IF StartsWith(s, srcSlash \o pagesSlash) THEN DropPrefix(s, srcSlash \o pagesSlash)
    ELSE DropPrefix(s, pagesSlash)

\* parseJavaScriptFile(content, fullPath) merged into the base record by
\* Object.assign: the kind the parser found replaces the default.
parseJavaScriptFile(file, fileInfo) ==
    [fileInfo EXCEPT !.type = file.parse, !.parsed = TRUE]

\* A catch block that marks the record of a file whose parse threw.
TryParseMarksUnparsed(file, fileInfo) ==
    IF ~IsScript(file.relativePath) THEN fileInfo
    ELSE IF file.parse = "threw" THEN [fileInfo EXCEPT !.type = "unparsed"]
    ELSE parseJavaScriptFile(file, fileInfo)

\* Lines 175-181: a script file is parsed inside try/catch; when the parser
\* throws, the base record stays as it is.
TryParse(file, fileInfo) ==
    IF IsScript(file.relativePath) /\ file.parse # "threw"
    THEN parseJavaScriptFile(file, fileInfo)
    ELSE fileInfo

NoManifest == [files |-> <<>>, routes |-> <<>>, entryPoint |-> <<>>,
               styleFiles |-> <<>>]

\* Lines 156-201: one turn of the loop over Object.entries(parsedResult.files).
ProcessFile(fileManifest, file) ==
    LET relativePath == file.relativePath
        fullPath == AppDir \o relativePath
        base == [content |-> [chars |-> file.chars, bytes |-> file.bytes],
                 type |-> "utility", path |-> fullPath,
                 relativePath |-> relativePath, parsed |-> FALSE]
        afterParse == TryParse(file, base)
        afterMain == IF /\ IsScript(relativePath)
                        /\ relativePath \in {srcMainJsx, srcIndexJsx}
                     THEN fullPath
                     ELSE fileManifest.entryPoint
        afterApp == IF /\ IsScript(relativePath)
                       /\ relativePath \in {srcAppJsx, AppJsx}
                       /\ afterMain = <<>>
                    THEN fullPath
                    ELSE afterMain
        isStyle == EndsWith(relativePath, dotCss)
        fileInfo == IF isStyle THEN [afterParse EXCEPT !.type = "style"]
                    ELSE afterParse
    IN  [fileManifest EXCEPT
           !.entryPoint = afterApp,
           !.styleFiles = IF isStyle THEN Append(@, fullPath) ELSE @,
           !.files = Append(@, fileInfo)]

RECURSIVE ProcessFiles(_, _)
ProcessFiles(fileManifest, entries) ==
    IF entries = <<>> THEN fileManifest
    ELSE ProcessFiles(ProcessFile(fileManifest, Head(entries)), Tail(entries))

\* Lines 257-290, the filesystem convention of extractRoutes: one route for
\* each file below pages/ or src/pages/.
RECURSIVE extractRoutes(_)
extractRoutes(files) ==
    IF files = <<>> THEN <<>>
    ELSE LET fileInfo == Head(files)
             relativePath == fileInfo.relativePath
             routePath == <<"/">> \o DropSuffix(DropScriptExtension(
                              DropPagesDir(relativePath)), indexWord)
         IN  IF \/ StartsWith(relativePath, pagesSlash)
                \/ StartsWith(relativePath, srcSlash \o pagesSlash)
             THEN <<[path |-> routePath, component |-> fileInfo.path]>>
                    \o extractRoutes(Tail(files))
             ELSE extractRoutes(Tail(files))

\* Lines 146-218: the manifest of one enumeration.
BuildManifest(entries) ==
    LET fileManifest == ProcessFiles(NoManifest, entries)
    IN  [fileManifest EXCEPT !.routes = extractRoutes(fileManifest.files)]

\* ----------------------------------------------------------------- state
VARIABLES
    activeSandbox,   \* global.activeSandbox: a handle, or 0 for null
    sandboxData,     \* global.sandboxData
    existingFiles,   \* global.existingFiles: [defined, paths]
    sandboxState,    \* global.sandboxState
    nextId,          \* next fresh handle
    kind,            \* handle -> "none" | "live" | "mock"
    deps,            \* handle -> names in its package.json (both sections)
    killCalls,       \* handle -> number of kill() calls made on it
    superseded,      \* handles a create call displaced from activeSandbox
    cPc,             \* create-ai-sandbox: where the handler awaits
    cSandbox,        \* create-ai-sandbox: its local `sandbox`
    cPrior,          \* create-ai-sandbox: the session it found current and killed
    kPc,             \* kill-sandbox: where the handler awaits
    rPc,             \* run-command: where the handler awaits
    rTarget,         \* run-command: the object runCode was called on
    gPc,             \* get-sandbox-files: where the handler awaits
    gTarget,         \* get-sandbox-files: the object runCode was called on
    iPc,             \* install-packages: where the handler awaits
    iValid,          \* install-packages: validPackages while it reconnects
    iReq,            \* install-packages: its `sandbox`, whether a sandboxId
                     \* came, and the key it validated, while it reconnects
    tPc,             \* install task: the operation it performs next
    tSandbox,        \* install task: its parameter sandboxInstance
    tValid,          \* install task: validPackages
    tToInstall,      \* install task: packagesToInstall
    tInstalled,      \* install task: installedPackages
    tLines,          \* install task: npmOutputLines not yet looked at
    tTargets,        \* runCode calls of this task: <<object called, was it current>>
    tManifest,       \* names in the target's package.json when the task started
    tCheck,          \* how the diff command of this task ended, "none" before
    npmRuns,         \* npm install invocations of this task
    npmProc,         \* what became of the npm process the install script started
    stream,          \* the events written to this task's stream, in order
    streamState,     \* "none" | "open" | "closed"
    lastResp,        \* the response the last step returned, if it returned one
    serial,          \* this run serves one request at a time (never changes)
    started          \* requests accepted so far by a run that overlaps them

coreVars == <<activeSandbox, sandboxData, existingFiles, sandboxState, nextId,
              kind, deps, killCalls, superseded>>
createVars == <<cPc, cSandbox, cPrior>>
killVars == <<kPc>>
runVars == <<rPc, rTarget>>
getVars == <<gPc, gTarget>>
installVars == <<iPc, iValid, iReq, tPc, tSandbox, tValid, tToInstall, tInstalled, tLines,
                 tTargets, tManifest, tCheck, npmRuns, npmProc, stream, streamState>>

Handles == 1..MaxSessions
Names == {lodash, react, scoped}

NoData == [sandboxId |-> 0, isDemo |-> FALSE]
NoState == [sandboxId |-> 0, manifestOf |-> 0]

\* The files the create route tracks after a live setup.
InitialFiles == {"src/App.jsx", "src/main.jsx", "src/index.css", "index.html",
                 "package.json", "vite.config.js", "tailwind.config.js",
                 "postcss.config.js"}

\* The dependencies and devDependencies the setup script writes.
SkeletonDeps == {react}

\* A response body.  `success` is "true", "false", or "absent" when the route
\* builds its JSON by hand and writes no success key.  Beside the body the
\* record notes how the request was served: the return statement it left by
\* (`via`), whether E2B_API_KEY was unset, and what the install route did
\* before it answered.
NoResp == [op |-> "none", success |-> "absent", errorCode |-> "", isDemo |-> FALSE,
           sid |-> 0, sandboxKilled |-> FALSE, via |-> "", keyMissing |-> FALSE,
           sessionRead |-> FALSE, reconnectTried |-> FALSE, streamOpened |-> FALSE,
           emptyRequest |-> FALSE, current |-> 0, hasId |-> FALSE,
           key |-> "unread", tree |-> <<>>, manifest |-> NoManifest,
           warnings |-> <<>>]

\* The install handler's locals before it has read anything.
NoReq == [sandbox |-> 0, sandboxId |-> FALSE, key |-> "unread"]

\* createErrorResponse(message, status, errorCode): with a string message a
\* missing errorCode becomes UNKNOWN_ERROR.
createErrorResponse(op, errorCode) ==
    [NoResp EXCEPT !.op = op, !.success = "false",
                   !.errorCode = IF errorCode = "" THEN "UNKNOWN_ERROR" ELSE errorCode]

\* createSuccessResponse(data, message)
createSuccessResponse(op, sid) ==
    [NoResp EXCEPT !.op = op, !.success = "true", !.sid = sid]

\* The handle a write to global.activeSandbox displaces, if any.
Displaced == IF activeSandbox = 0 THEN {} ELSE {activeSandbox}

\* Mutant of ClearedIfDefined: the set is left as it is.
KeptIfDefined == existingFiles

\* existingFiles.clear() when the set exists.
ClearedIfDefined == [existingFiles EXCEPT !.paths = {}]

Init ==
    /\ activeSandbox = 0
    /\ sandboxData = NoData
    /\ existingFiles = [defined |-> FALSE, paths |-> {}]
    /\ sandboxState = NoState
    /\ nextId = 1
    /\ kind = [h \in Handles |-> "none"]
    /\ deps = [h \in Handles |-> {}]
    /\ killCalls = [h \in Handles |-> 0]
    /\ superseded = {}
    /\ cPc = "idle"
    /\ cSandbox = 0
    /\ cPrior = 0
    /\ kPc = "idle"
    /\ rPc = "idle"
    /\ rTarget = 0
    /\ gPc = "idle"
    /\ gTarget = 0
    /\ iPc = "idle"
    /\ iValid = <<>>
    /\ iReq = NoReq
    /\ tPc = "idle"
    /\ tSandbox = 0
    /\ tValid = <<>>
    /\ tToInstall = <<>>
    /\ tInstalled = <<>>
    /\ tLines = <<>>
    /\ tTargets = {}
    /\ tManifest = {}
    /\ tCheck = "none"
    /\ npmRuns = 0
    /\ npmProc = "none"
    /\ stream = <<>>
    /\ streamState = "none"
    /\ lastResp = NoResp
    /\ serial \in BOOLEAN
    /\ started = 0

\* Requests being served: a handler between its first and last step, or an
\* install task that has not closed its stream.
InFlight ==
    (IF cPc = "idle" THEN 0 ELSE 1) + (IF kPc = "idle" THEN 0 ELSE 1)
    + (IF rPc = "idle" THEN 0 ELSE 1) + (IF gPc = "idle" THEN 0 ELSE 1)
    + (IF iPc = "idle" /\ tPc = "idle" THEN 0 ELSE 1)

\* A route accepts a request: it serves no other one, and fewer than
\* MaxInFlight requests are being served (none, in a serial run).
CanStart(pc) ==
    /\ pc = "idle"
    /\ InFlight < (IF serial THEN 1 ELSE MaxInFlight)
    /\ serial \/ started < MaxOverlapRequests

\* The request is accepted.
Accepted ==
    /\ serial' = serial
    /\ started' = IF serial THEN started ELSE started + 1

\* The exploration is bounded in two ways: a serial run takes every request
\* and every installer output of the model, one request at a time; a run that
\* overlaps requests takes `packages` arrays of at most MaxOverlapPkgs
\* entries, none of them with a version, and a quiet npm.
InScope(req) == serial \/ (req.len <= MaxOverlapPkgs /\ ~req.versioned)

\* ------------------------------------------------- create-ai-sandbox POST
\* The mock object and sandboxData a demo create stores; nothing else is
\* touched: no kill of the prior session, no clear of existingFiles.
StoreMock(via, keyMissing) ==
    /\ kind' = [kind EXCEPT ![nextId] = "mock"]
    /\ nextId' = nextId + 1
    /\ activeSandbox' = nextId
    /\ sandboxData' = [sandboxId |-> nextId, isDemo |-> TRUE]
    /\ superseded' = superseded \cup Displaced
    /\ lastResp' = [NoResp EXCEPT !.op = "create", !.isDemo = TRUE, !.sid = nextId,
                                  !.via = via, !.keyMissing = keyMissing]

\* Lines 20-48: demo mode by configuration; returns without an await.
CreateDemoByConfig ==
    /\ CanStart(cPc)
    /\ nextId <= MaxSessions
    /\ \E keyMissing \in {env.key = "missing" : env \in {e \in Envs : IsDemoEnv(e)}} :
        StoreMock("demoByConfig", keyMissing)
    /\ UNCHANGED <<existingFiles, sandboxState, deps, killCalls, createVars>>
    /\ UNCHANGED <<killVars, runVars, installVars>>
    /\ UNCHANGED getVars
    /\ Accepted

\* Lines 50-55: the key is set but does not validate.
CreateKeyInvalid ==
    /\ CanStart(cPc)
    /\ nextId <= MaxSessions
    /\ \E keyMissing \in {env.key = "missing" :
                              env \in {e \in Envs : ~IsDemoEnv(e) /\ ~validateE2BApiKey(e.key)}} :
        lastResp' = [createErrorResponse("create", "MISSING_ENV_VAR") EXCEPT
                        !.via = "keyInvalid", !.keyMissing = keyMissing]
    /\ UNCHANGED <<coreVars, createVars>>
    /\ UNCHANGED <<killVars, runVars, installVars>>
    /\ UNCHANGED getVars
    /\ Accepted

\* Lines 70-75 and the call of Sandbox.create at line 81.
ClearFilesAndCallProvider ==
    /\ existingFiles' = [defined |-> TRUE, paths |-> {}]
    /\ cPc' = "creating"

\* Lines 59-63: a prior session exists; its kill() is called and awaited.
CreateKillPrior ==
    /\ CanStart(cPc)
    /\ nextId <= MaxSessions
    /\ \E env \in Envs : ~IsDemoEnv(env) /\ validateE2BApiKey(env.key)
    /\ activeSandbox # 0
    /\ killCalls' = [killCalls EXCEPT ![activeSandbox] = @ + 1]
    /\ cPc' = "killPrior"
    /\ cPrior' = activeSandbox
    /\ lastResp' = NoResp
    /\ UNCHANGED <<activeSandbox, sandboxData, existingFiles, sandboxState, nextId,
                   kind, deps, superseded, cSandbox>>
    /\ UNCHANGED <<killVars, runVars, installVars>>
    /\ UNCHANGED getVars
    /\ Accepted

\* Lines 59-84 with no prior session: straight to Sandbox.create.
CreateNoPrior ==
    /\ CanStart(cPc)
    /\ nextId <= MaxSessions
    /\ \E env \in Envs : ~IsDemoEnv(env) /\ validateE2BApiKey(env.key)
    /\ activeSandbox = 0
    /\ ClearFilesAndCallProvider
    /\ lastResp' = NoResp
    /\ UNCHANGED <<activeSandbox, sandboxData, sandboxState, nextId, kind, deps,
                   killCalls, superseded, cSandbox, cPrior>>
    /\ UNCHANGED <<killVars, runVars, installVars>>
    /\ UNCHANGED getVars
    /\ Accepted

\* What the handler has seen of the prior session's kill(); no response.
PriorKill(threw) ==
    [NoResp EXCEPT !.via = IF threw THEN "priorKillThrew" ELSE "priorKilled"]

\* Mutant of CreateKillSettled: the registry is emptied inside the try, so
\* a kill() that rejects skips it.
CreateKillSettledClearsInTry ==
    /\ cPc = "killPrior"
    /\ \E threw \in BOOLEAN :
         /\ activeSandbox' = IF threw THEN activeSandbox ELSE 0
         /\ superseded' = IF threw THEN superseded ELSE superseded \cup Displaced
         /\ lastResp' = PriorKill(threw)
    /\ ClearFilesAndCallProvider
    /\ UNCHANGED <<sandboxData, sandboxState, nextId, kind, deps, killCalls, cSandbox,
                   cPrior>>
    /\ UNCHANGED <<killVars, runVars, installVars>>
    /\ UNCHANGED <<getVars, serial, started>>

\* Lines 64-84: kill() settled, resolved or rejected (the catch only logs);
\* the registry is emptied and stays empty while Sandbox.create is awaited.
CreateKillSettled ==
    /\ cPc = "killPrior"
    /\ activeSandbox' = 0
    /\ superseded' = superseded \cup Displaced
    /\ ClearFilesAndCallProvider
    /\ \E threw \in BOOLEAN : lastResp' = PriorKill(threw)
    /\ UNCHANGED <<sandboxData, sandboxState, nextId, kind, deps, killCalls, cSandbox,
                   cPrior>>
    /\ UNCHANGED <<killVars, runVars, installVars>>
    /\ UNCHANGED <<getVars, serial, started>>

\* Lines 85-110: Sandbox.create rejected; fall back to a mock session.
CreateProviderFailed ==
    /\ cPc = "creating"
    /\ nextId <= MaxSessions
    /\ StoreMock("providerFailed", FALSE)
    /\ cPc' = "idle"
    /\ cPrior' = 0
    /\ UNCHANGED <<existingFiles, sandboxState, deps, killCalls, cSandbox>>
    /\ UNCHANGED <<killVars, runVars, installVars>>
    /\ UNCHANGED <<getVars, serial, started>>

\* Lines 81-84, 112-113, 298: Sandbox.create resolved; getHost returns and the
\* setup script is sent.
CreateProviderOk ==
    /\ cPc = "creating"
    /\ nextId <= MaxSessions
    /\ kind' = [kind EXCEPT ![nextId] = "live"]
    /\ nextId' = nextId + 1
    /\ cSandbox' = nextId
    /\ UNCHANGED cPrior
    /\ cPc' = "setup"
    /\ lastResp' = NoResp
    /\ UNCHANGED <<activeSandbox, sandboxData, existingFiles, sandboxState, deps,
                   killCalls, superseded>>
    /\ UNCHANGED <<killVars, runVars, installVars>>
    /\ UNCHANGED <<getVars, serial, started>>

\* Lines 112-113, 443-453: Sandbox.create resolved but getHost threw; the
\* outer catch calls kill() on the new sandbox.
CreateGetHostThrew ==
    /\ cPc = "creating"
    /\ nextId <= MaxSessions
    /\ kind' = [kind EXCEPT ![nextId] = "live"]
    /\ nextId' = nextId + 1
    /\ cSandbox' = nextId
    /\ UNCHANGED cPrior
    /\ killCalls' = [killCalls EXCEPT ![nextId] = @ + 1]
    /\ cPc' = "errorCleanup"
    /\ lastResp' = NoResp
    /\ UNCHANGED <<activeSandbox, sandboxData, existingFiles, sandboxState, deps,
                   superseded>>
    /\ UNCHANGED <<killVars, runVars, installVars>>
    /\ UNCHANGED <<getVars, serial, started>>

\* Lines 296-298, 314-317: the setup script ran; npm install is sent.
CreateSetupOk ==
    /\ cPc = "setup"
    /\ deps' = [deps EXCEPT ![cSandbox] = SkeletonDeps]
    /\ cPc' = "deps"
    /\ lastResp' = NoResp
    /\ UNCHANGED <<activeSandbox, sandboxData, existingFiles, sandboxState, nextId,
                   kind, killCalls, superseded, cSandbox, cPrior>>
    /\ UNCHANGED <<killVars, runVars, installVars>>
    /\ UNCHANGED <<getVars, serial, started>>

\* Mutant of CreateSetupThrew: the catch answers without calling kill().
CreateSetupThrewNoKill ==
    /\ cPc = "setup"
    /\ cPc' = "setupCleanup"
    /\ lastResp' = NoResp
    /\ UNCHANGED <<activeSandbox, sandboxData, existingFiles, sandboxState, nextId,
                   kind, deps, killCalls, superseded, cSandbox, cPrior>>
    /\ UNCHANGED <<killVars, runVars, installVars>>
    /\ UNCHANGED <<getVars, serial, started>>

\* Lines 299-303: the setup script threw; kill() of the new sandbox is called.
CreateSetupThrew ==
    /\ cPc = "setup"
    /\ killCalls' = [killCalls EXCEPT ![cSandbox] = @ + 1]
    /\ cPc' = "setupCleanup"
    /\ lastResp' = NoResp
    /\ UNCHANGED <<activeSandbox, sandboxData, existingFiles, sandboxState, nextId,
                   kind, deps, superseded, cSandbox, cPrior>>
    /\ UNCHANGED <<killVars, runVars, installVars>>
    /\ UNCHANGED <<getVars, serial, started>>

\* Lines 304-311: that kill() settled; SANDBOX_SETUP_FAILED.
CreateSetupCleanupSettled ==
    /\ cPc = "setupCleanup"
    /\ cPc' = "idle"
    /\ cSandbox' = 0
    /\ cPrior' = 0
    /\ lastResp' = [createErrorResponse("create", "SANDBOX_SETUP_FAILED") EXCEPT
                      !.via = "setupFailed"]
    /\ UNCHANGED coreVars
    /\ UNCHANGED <<killVars, runVars, installVars>>
    /\ UNCHANGED <<getVars, serial, started>>

\* Lines 316-344: npm install settled, resolved or rejected (the catch only
\* warns); the dev server start is sent.
CreateDepsSettled ==
    /\ cPc = "deps"
    /\ cPc' = "vite"
    /\ lastResp' = NoResp
    /\ UNCHANGED <<coreVars, cSandbox, cPrior>>
    /\ UNCHANGED <<killVars, runVars, installVars>>
    /\ UNCHANGED <<getVars, serial, started>>

\* Lines 343-375: the dev server start settled, resolved or rejected; the
\* startup delay begins.
CreateViteSettled ==
    /\ cPc = "vite"
    /\ cPc' = "delay"
    /\ lastResp' = NoResp
    /\ UNCHANGED <<coreVars, cSandbox, cPrior>>
    /\ UNCHANGED <<killVars, runVars, installVars>>
    /\ UNCHANGED <<getVars, serial, started>>

\* Lines 375-378: the delay elapsed; the stylesheet touch is sent.
CreateDelayElapsed ==
    /\ cPc = "delay"
    /\ cPc' = "touch"
    /\ lastResp' = NoResp
    /\ UNCHANGED <<coreVars, cSandbox, cPrior>>
    /\ UNCHANGED <<killVars, runVars, installVars>>
    /\ UNCHANGED <<getVars, serial, started>>

\* Lines 393-441: the touch resolved; the new sandbox becomes the session.
CreateStoreLive ==
    /\ cPc = "touch"
    /\ activeSandbox' = cSandbox
    /\ superseded' = superseded \cup Displaced
    /\ sandboxData' = [sandboxId |-> cSandbox, isDemo |-> FALSE]
    /\ sandboxState' = [sandboxId |-> cSandbox, manifestOf |-> 0]
    /\ existingFiles' = [existingFiles EXCEPT !.paths = @ \cup InitialFiles]
    /\ cPc' = "idle"
    /\ cSandbox' = 0
    /\ cPrior' = 0
    /\ lastResp' = [createSuccessResponse("create", cSandbox) EXCEPT !.via = "live"]
    /\ UNCHANGED <<nextId, kind, deps, killCalls>>
    /\ UNCHANGED <<killVars, runVars, installVars>>
    /\ UNCHANGED <<getVars, serial, started>>

\* Lines 378, 443-453: the touch is awaited outside any inner try; when it
\* rejects the outer catch calls kill() on the new sandbox.
CreateTouchThrew ==
    /\ cPc = "touch"
    /\ killCalls' = [killCalls EXCEPT ![cSandbox] = @ + 1]
    /\ cPc' = "errorCleanup"
    /\ lastResp' = NoResp
    /\ UNCHANGED <<activeSandbox, sandboxData, existingFiles, sandboxState, nextId,
                   kind, deps, superseded, cSandbox, cPrior>>
    /\ UNCHANGED <<killVars, runVars, installVars>>
    /\ UNCHANGED <<getVars, serial, started>>

\* Lines 450-461: that kill() settled; SANDBOX_CREATION_FAILED.
CreateErrorCleanupSettled ==
    /\ cPc = "errorCleanup"
    /\ cPc' = "idle"
    /\ cSandbox' = 0
    /\ cPrior' = 0
    /\ lastResp' = [createErrorResponse("create", "SANDBOX_CREATION_FAILED") EXCEPT
                      !.via = "outerCatch"]
    /\ UNCHANGED coreVars
    /\ UNCHANGED <<killVars, runVars, installVars>>
    /\ UNCHANGED <<getVars, serial, started>>


\* ------------------------------------------------------ kill-sandbox POST
\* Lines 24-37: the registry and the tracker are cleared and the route
\* answers; sandboxKilled tells whether close() resolved.
\* Mutant of KillClearAndRespond: the tracker is left as it is.
KillRespondKeepsTracker(sandboxKilled, via) ==
    /\ activeSandbox' = 0
    /\ sandboxData' = NoData
    /\ existingFiles' = existingFiles
    /\ kPc' = "idle"
    /\ lastResp' = [NoResp EXCEPT !.op = "kill", !.success = "true",
                                  !.sandboxKilled = sandboxKilled, !.via = via]

KillClearAndRespond(sandboxKilled, via) ==
    /\ activeSandbox' = 0
    /\ sandboxData' = NoData
    /\ existingFiles' = ClearedIfDefined
    /\ kPc' = "idle"
    /\ lastResp' = [NoResp EXCEPT !.op = "kill", !.success = "true",
                                  !.sandboxKilled = sandboxKilled, !.via = via]

\* Lines 16-18: a live session is current; close() is called and awaited.
KillCallClose ==
    /\ CanStart(kPc)
    /\ activeSandbox # 0
    /\ kind[activeSandbox] = "live"
    /\ kPc' = "closing"
    /\ lastResp' = NoResp
    /\ UNCHANGED <<activeSandbox, sandboxData, existingFiles, sandboxState, nextId,
                   kind, deps, killCalls, superseded>>
    /\ UNCHANGED <<createVars, runVars, installVars>>
    /\ UNCHANGED getVars
    /\ Accepted

\* Lines 16-37 on a mock session: the mock object has kill and getHost but no
\* close, so the call throws at once; the catch logs and the route goes on.
KillMock ==
    /\ CanStart(kPc)
    /\ activeSandbox # 0
    /\ kind[activeSandbox] = "mock"
    /\ KillClearAndRespond(FALSE, "noCloseMethod")
    /\ UNCHANGED <<sandboxState, nextId, kind, deps, killCalls, superseded>>
    /\ UNCHANGED <<createVars, runVars, installVars>>
    /\ UNCHANGED getVars
    /\ Accepted

\* Lines 16, 28-37 with no session: only the tracker is cleared.
KillNoSession ==
    /\ CanStart(kPc)
    /\ activeSandbox = 0
    /\ existingFiles' = ClearedIfDefined
    /\ lastResp' = [NoResp EXCEPT !.op = "kill", !.success = "true",
                                  !.via = "noSession"]
    /\ UNCHANGED <<activeSandbox, sandboxData, sandboxState, nextId, kind, deps,
                   killCalls, superseded, kPc>>
    /\ UNCHANGED <<createVars, runVars, installVars>>
    /\ UNCHANGED getVars
    /\ Accepted

\* Lines 18-37: close() settled.
KillCloseSettled ==
    /\ kPc = "closing"
    /\ \E closed \in BOOLEAN :
         KillClearAndRespond(closed, IF closed THEN "closed" ELSE "closeThrew")
    /\ UNCHANGED <<sandboxState, nextId, kind, deps, killCalls, superseded>>
    /\ UNCHANGED <<createVars, runVars, installVars>>
    /\ UNCHANGED <<getVars, serial, started>>


\* ------------------------------------------------------- run-command POST
\* Lines 11-18: no command in the body.
RunNoCommand ==
    /\ CanStart(rPc)
    /\ lastResp' = [NoResp EXCEPT !.op = "run", !.success = "false",
                                  !.via = "noCommand"]
    /\ UNCHANGED <<coreVars, runVars>>
    /\ UNCHANGED <<createVars, killVars, installVars>>
    /\ UNCHANGED getVars
    /\ Accepted

\* Lines 20-25: the registry is empty.
RunNoSandbox ==
    /\ CanStart(rPc)
    /\ activeSandbox = 0
    /\ lastResp' = [NoResp EXCEPT !.op = "run", !.success = "false",
                                  !.via = "noSandbox"]
    /\ UNCHANGED <<coreVars, runVars>>
    /\ UNCHANGED <<createVars, killVars, installVars>>
    /\ UNCHANGED getVars
    /\ Accepted

\* Lines 27-35: sandboxData says demo; the command is simulated.
RunDemo ==
    /\ CanStart(rPc)
    /\ activeSandbox # 0
    /\ sandboxData.isDemo
    /\ lastResp' = [NoResp EXCEPT !.op = "run", !.success = "true", !.isDemo = TRUE,
                                  !.sid = activeSandbox, !.via = "demo"]
    /\ UNCHANGED <<coreVars, runVars>>
    /\ UNCHANGED <<createVars, killVars, installVars>>
    /\ UNCHANGED getVars
    /\ Accepted

\* Line 39: runCode is called on the object that is current right now.
RunCallRunCode ==
    /\ CanStart(rPc)
    /\ activeSandbox # 0
    /\ ~sandboxData.isDemo
    /\ rTarget' = activeSandbox
    /\ rPc' = "running"
    /\ lastResp' = NoResp
    /\ UNCHANGED coreVars
    /\ UNCHANGED <<createVars, killVars, installVars>>
    /\ UNCHANGED getVars
    /\ Accepted

\* Mutant of RunSettled: a command that failed drops the current session.
RunSettledDropsSession ==
    /\ rPc = "running"
    /\ \E ok \in BOOLEAN :
         /\ lastResp' = [NoResp EXCEPT !.op = "run",
                           !.success = IF ok /\ kind[rTarget] = "live" THEN "true" ELSE "false",
                           !.sid = rTarget, !.via = "ran"]
         /\ activeSandbox' = IF ok THEN activeSandbox ELSE 0
    /\ rPc' = "idle"
    /\ rTarget' = 0
    /\ UNCHANGED <<sandboxData, existingFiles, sandboxState, nextId, kind, deps,
                   killCalls, superseded>>
    /\ UNCHANGED <<createVars, killVars, installVars>>
    /\ UNCHANGED <<getVars, serial, started>>

\* Lines 57-71: runCode settled; a mock object has no runCode, a live one
\* resolves or rejects.
RunSettled ==
    /\ rPc = "running"
    /\ \E ok \in BOOLEAN :
         lastResp' = [NoResp EXCEPT !.op = "run",
                        !.success = IF ok /\ kind[rTarget] = "live" THEN "true" ELSE "false",
                        !.sid = rTarget, !.via = "ran"]
    /\ rPc' = "idle"
    /\ rTarget' = 0
    /\ UNCHANGED coreVars
    /\ UNCHANGED <<createVars, killVars, installVars>>
    /\ UNCHANGED <<getVars, serial, started>>


\* --------------------------------------------------- get-sandbox-files GET
\* Lines 13-15: the registry is empty.
GetNoSandbox ==
    /\ CanStart(gPc)
    /\ activeSandbox = 0
    /\ lastResp' = [createErrorResponse("files", "SANDBOX_NOT_FOUND") EXCEPT
                      !.via = "noSandbox"]
    /\ UNCHANGED <<coreVars, getVars>>
    /\ UNCHANGED <<createVars, killVars, runVars, installVars>>
    /\ Accepted

\* Lines 22, 98-106: the mock object has no runCode; the call throws at once
\* into the catch around it.
GetMockThrew ==
    /\ CanStart(gPc)
    /\ activeSandbox # 0
    /\ kind[activeSandbox] = "mock"
    /\ lastResp' = [createErrorResponse("files", "SANDBOX_EXECUTION_FAILED") EXCEPT
                      !.sid = activeSandbox, !.via = "noRunCode"]
    /\ UNCHANGED <<coreVars, getVars>>
    /\ UNCHANGED <<createVars, killVars, runVars, installVars>>
    /\ Accepted

\* Line 22: runCode is called on the live session and awaited.
GetCallRunCode ==
    /\ CanStart(gPc)
    /\ activeSandbox # 0
    /\ kind[activeSandbox] = "live"
    /\ gTarget' = activeSandbox
    /\ gPc' = "running"
    /\ lastResp' = NoResp
    /\ UNCHANGED coreVars
    /\ UNCHANGED <<createVars, killVars, runVars, installVars>>
    /\ Accepted

\* The ways the enumeration can settle, with the error each one is answered
\* with (lines 98-140, 220-227); "" is the success of lines 239-245.
GetOutcomes ==
    {[how |-> "threw", errorCode |-> "SANDBOX_EXECUTION_FAILED"],
     [how |-> "noOutput", errorCode |-> "NO_SANDBOX_OUTPUT"],
     [how |-> "unparsable", errorCode |-> "OUTPUT_PARSE_FAILED"],
     [how |-> "scriptFailed", errorCode |-> "SANDBOX_OPERATION_FAILED"],
     [how |-> "noFiles", errorCode |-> "MANIFEST_BUILD_FAILED"],
     [how |-> "files", errorCode |-> ""]}

\* The trees enumerated in a run: every tree when requests come one at a
\* time, the small ones when they overlap.
TreesInScope == {tree \in Trees : serial \/ Len(tree) <= MaxOverlapFiles}

\* Lines 98-245: runCode settled.  On success the manifest is put into
\* global.sandboxState.fileCache, when there is one, and the route answers.
GetSettled ==
    /\ gPc = "running"
    /\ \E out \in GetOutcomes :
         IF out.errorCode # ""
         THEN /\ lastResp' = [createErrorResponse("files", out.errorCode) EXCEPT
                                !.sid = gTarget, !.via = out.how]
              /\ UNCHANGED sandboxState
         ELSE /\ \E tree \in TreesInScope :
                   lastResp' = [createSuccessResponse("files", gTarget) EXCEPT
                                  !.via = out.how,
                                  !.tree = tree,
                                  !.manifest = BuildManifest(files_content(tree)),
                                  !.warnings = errors(tree)]
              /\ sandboxState' = IF sandboxState.sandboxId # 0
                                 THEN [sandboxState EXCEPT !.manifestOf = gTarget]
                                 ELSE sandboxState
    /\ gPc' = "idle"
    /\ gTarget' = 0
    /\ UNCHANGED <<activeSandbox, sandboxData, existingFiles, nextId, kind, deps,
                   killCalls, superseded>>
    /\ UNCHANGED <<createVars, killVars, runVars, installVars>>
    /\ UNCHANGED <<serial, started>>


\* --------------------------------------------- install-packages: request
\* What a caller may put into the `packages` array.
RawPool == {JsString(lodash), JsString(<<" ", "l">>), JsString(react),
            JsString(<<" ">>), JsString(<<>>), JsNumber7}

\* The arrays: up to MaxPkgs entries of the pool, and the request for one
\* scoped package at a version.
Arrays == UNION {[1..n -> RawPool] : n \in 0..MaxPkgs} \cup {<<JsString(scopedAt1)>>}

\* The request body: unparsable, the JSON value null, or an object whose
\* `packages` is absent, '', a non-empty string, or an array, and whose
\* `sandboxId` is given or not.
Bodies ==
    {[json |-> j, packages |-> "undefined", items |-> <<>>, hasId |-> FALSE] :
        j \in {"malformed", "null"}}
    \cup {[json |-> "object", packages |-> k, items |-> <<>>, hasId |-> b] :
        k \in {"undefined", "emptyString", "string"}, b \in BOOLEAN}
    \cup {[json |-> "object", packages |-> "array", items |-> a, hasId |-> b] :
        a \in Arrays, b \in BOOLEAN}

\* Mutant of InstallRejection: the check of validPackages.length is gone.
InstallRejectionNoEmptyCheck(body) ==
    IF body.json = "malformed" THEN "MALFORMED_JSON"
    ELSE IF body.json = "null" THEN "STREAM_INITIALIZATION_FAILED"
    ELSE IF body.packages \in {"undefined", "emptyString"} THEN "MISSING_PARAMETER"
    ELSE IF body.packages # "array" \/ Len(body.items) = 0
         THEN "INVALID_PACKAGES_FORMAT"
    ELSE ""

\* Lines 489-526: the error the route answers before it looks at the
\* registry, or "" when the request passes.  A body of null makes the
\* destructuring at line 496 throw into the catch at line 917.
InstallRejection(body) ==
    IF body.json = "malformed" THEN "MALFORMED_JSON"
    ELSE IF body.json = "null" THEN "STREAM_INITIALIZATION_FAILED"
    ELSE IF body.packages \in {"undefined", "emptyString"} THEN "MISSING_PARAMETER"
    ELSE IF body.packages # "array" \/ Len(body.items) = 0
         THEN "INVALID_PACKAGES_FORMAT"
    ELSE IF Len(ValidPackages(body.items)) = 0 THEN "NO_VALID_PACKAGES"
    ELSE ""

\* ------------------------------------------ install-packages: remote side
\* str.split('@')[0]
RECURSIVE BeforeAt(_)
BeforeAt(s) ==
    IF s = <<>> THEN s
    ELSE IF Head(s) = "@" THEN <<>>
    ELSE <<Head(s)>> \o BeforeAt(Tail(s))

\* Lines 636-642: the name the check script looks up for a requested package.
CheckName(pkg) == IF pkg # <<>> /\ Head(pkg) = "@" THEN pkg ELSE BeforeAt(pkg)

\* Line 723: `npm install <spec>` records a package in package.json under its
\* name, which is the spec without its version: name@version, or
\* @scope/name@version.
PackageName(pkg) ==
    IF pkg # <<>> /\ Head(pkg) = "@" THEN <<"@">> \o BeforeAt(Tail(pkg))
    ELSE BeforeAt(pkg)

RECURSIVE SelectSeq2(_, _)
SelectSeq2(list, keep) ==
    IF list = <<>> THEN <<>>
    ELSE IF Head(list) \in keep
         THEN <<Head(list)>> \o SelectSeq2(Tail(list), keep)
         ELSE SelectSeq2(Tail(list), keep)

\* Mutant of NeedInstall: every requested package is reported as missing.
NeedInstallAll(packages, installed) == packages

\* Lines 633-647: need_install of the check script.
NeedInstall(packages, installed) ==
    SelectSeq2(packages, {packages[i] : i \in {j \in 1..Len(packages) :
                                               CheckName(packages[j]) \notin installed}})

\* Lines 760-767: `installed` of the install script, by exact string.
VerifiedInstalled(packages, installed) ==
    SelectSeq2(packages, {packages[i] : i \in 1..Len(packages)} \cap installed)

\* Python's repr of a list of strings: ['a', 'b'].
RECURSIVE ReprItems(_)
ReprItems(list) ==
    IF list = <<>> THEN <<>>
    ELSE <<"'">> \o Head(list) \o <<"'">>
         \o (IF Len(list) > 1 THEN <<",", " ">> ELSE <<>>)
         \o ReprItems(Tail(list))

PyListRepr(list) == <<"[">> \o ReprItems(list) \o <<"]">>

\* The text a lazy `(.*?)` takes up to the next `stop` character.
RECURSIVE UpTo(_, _)
UpTo(s, stop) ==
    IF s = <<>> \/ Head(s) = stop THEN <<>>
    ELSE <<Head(s)>> \o UpTo(Tail(s), stop)

\* String.prototype.split(',')
RECURSIVE SplitComma(_)
SplitComma(s) ==
    LET first == UpTo(s, ",")
    IN  IF Len(first) = Len(s) THEN <<first>>
        ELSE <<first>> \o SplitComma(SubSeq(s, Len(first) + 2, Len(s)))

\* String.prototype.replace(/'/g, '')
RECURSIVE StripQuotes(_)
StripQuotes(s) ==
    IF s = <<>> THEN s
    ELSE IF Head(s) = "'" THEN StripQuotes(Tail(s))
    ELSE <<Head(s)>> \o StripQuotes(Tail(s))

RECURSIVE NonEmpty(_)
NonEmpty(list) ==
    IF list = <<>> THEN <<>>
    ELSE IF Head(list) = <<>> THEN NonEmpty(Tail(list))
    ELSE <<Head(list)>> \o NonEmpty(Tail(list))

\* Lines 820-828: installedPackages read back from the text between the
\* brackets of the "Verified installed packages: [...]" line.
ParseInstalled(repr) ==
    LET inner == UpTo(Tail(repr), "]")
        parts == SplitComma(inner)
    IN  IF inner = <<>> THEN <<>>
        ELSE NonEmpty([i \in 1..Len(parts) |-> StripQuotes(trim(parts[i]))])

\* One non-blank line of the installer output: the markers it contains, what
\* is left of it once 'STDERR:' is removed and the rest trimmed ("text",
\* "empty" or "undefined"), and for the verification line the list it prints.
Line(markers, rest, tag, repr) ==
    [markers |-> markers, rest |-> rest, tag |-> tag, repr |-> repr]

PlainLine(tag) == Line({}, "text", tag, <<>>)

\* Lines 745-750: the lines for npm's stderr: none when it is empty, else the
\* STDERR: line, and the ERESOLVE_ERROR: line when stderr names ERESOLVE.
\* npm writes its warnings to stderr, so the STDERR: line of a conflict
\* starts with what npm warned ("STDERR: npm WARN ERESOLVE ...").
StderrLines(stderrKind) ==
    IF stderrKind = "none" THEN <<>>
    ELSE IF stderrKind = "text" THEN <<Line({"STDERR:"}, "text", "stderr", <<>>)>>
    ELSE <<Line({"STDERR:", "npm WARN"}, "text", "stderr", <<>>),
           Line({"ERESOLVE_ERROR:"}, "text", "eresolve", <<>>)>>

\* The runs of npm the model tells apart: a quiet one, and one that warns on
\* stdout, prints a line with the word undefined in it, and reports a
\* dependency conflict on stderr.
NpmRuns == {[stdout |-> <<>>, stderr |-> "none"],
            [stdout |-> <<Line({"npm WARN"}, "text", "npm", <<>>),
                          Line({"undefined"}, "text", "undef", <<>>)>>,
             stderr |-> "eresolve"]}

\* Lines 720-772: what the install script prints when npm ran to its end
\* and package.json could be read back.
ScriptOutput(packages, npmLines, stderrKind, installedNow) ==
    <<PlainLine("running")>> \o npmLines \o StderrLines(stderrKind)
    \o <<PlainLine("completed")>>
    \o [i \in 1..Len(packages) |-> PlainLine("checked")]
    \o <<Line({}, "text", "verified",
              PyListRepr(VerifiedInstalled(packages, installedNow)))>>
    \o <<PlainLine("failed"), PlainLine("status")>>

\* The first "Verified installed packages" line of the output, if any.
RECURSIVE VerifiedRepr(_)
VerifiedRepr(lines) ==
    IF lines = <<>> THEN <<"[", "]">>
    ELSE IF Head(lines).tag = "verified" THEN Head(lines).repr
    ELSE VerifiedRepr(Tail(lines))

\* Mutant of ClassifyLine: the npm warning marker is looked for first.
ClassifyLineWarnFirst(line) ==
    IF "npm WARN" \in line.markers THEN "warning"
    ELSE IF "STDERR:" \in line.markers
    THEN IF line.rest = "text" THEN "error" ELSE "none"
    ELSE IF "ERESOLVE_ERROR:" \in line.markers THEN "warning"
    ELSE IF "undefined" \notin line.markers THEN "output"
    ELSE "none"

\* Lines 800-816: the event type a line of the output becomes, or "none".
ClassifyLine(line) ==
    IF "STDERR:" \in line.markers
    THEN IF line.rest = "text" THEN "error" ELSE "none"
    ELSE IF "ERESOLVE_ERROR:" \in line.markers THEN "warning"
    ELSE IF "npm WARN" \in line.markers THEN "warning"
    ELSE IF "undefined" \notin line.markers THEN "output"
    ELSE "none"

\* One frame of the stream: sendProgress({type, message, ...}).
Event(type, msg, pkgs) == [type |-> type, msg |-> msg, pkgs |-> pkgs]

\* ---------------------------------------------- install-packages: POST
InstallResp(code, emptyRequest, sessionRead, reconnectTried) ==
    [createErrorResponse("install", code) EXCEPT
        !.emptyRequest = emptyRequest, !.sessionRead = sessionRead,
        !.reconnectTried = reconnectTried]

\* What the handler had in hand when it answered: its `sandbox` as read at
\* line 536, whether the request carried a sandboxId, and the key it read.
Served(resp, current, hasId, key) ==
    [resp EXCEPT !.current = current, !.hasId = hasId, !.key = key]

\* Mutant of ShouldReconnect: a sandboxId alone starts a reconnect.
ShouldReconnectOnId(sandbox, hasId) == hasId

\* Line 538: if (!sandbox && sandboxId)
ShouldReconnect(sandbox, hasId) == sandbox = 0 /\ hasId

\* The claim's notion of a request that is empty after normalization: no
\* array, an empty array, or no entry that is a string with a non-blank trim.
EmptyAfterNormalization(body) ==
    /\ body.json = "object"
    /\ \/ body.packages # "array"
       \/ \A i \in 1..Len(body.items) :
             body.items[i].ty # "string" \/ trim(body.items[i].s) = <<>>

\* Mutant of RunTarget: the task looks the sandbox up again at every command.
RunTargetGlobal == activeSandbox

\* Lines 584, 906: the task runs its commands on its parameter
\* sandboxInstance, bound once to the handler's `sandbox`.
RunTarget == tSandbox

\* runCode on the task's target: only a live sandbox can resolve; the mock
\* object has no runCode and null has no properties, so the call throws.
TaskRunCode ==
    /\ tTargets' = tTargets \cup {<<RunTarget, activeSandbox = RunTarget>>}

CanResolve == RunTarget # 0 /\ kind[RunTarget] = "live"

\* Lines 567-590, 906-915: the stream is opened, the task starts on `sandbox`
\* and runs up to its first await (the write of `start`), and the route
\* returns the readable side.
OpenStreamAndStartTask(sandbox, validPackages, manifest, req, reconnectTried) ==
    /\ tSandbox' = sandbox
    /\ tValid' = validPackages
    /\ tToInstall' = <<>>
    /\ tInstalled' = <<>>
    /\ tLines' = <<>>
    /\ tTargets' = {}
    /\ tManifest' = manifest
    /\ tCheck' = "none"
    /\ npmRuns' = 0
    /\ npmProc' = "none"
    /\ stream' = <<Event("start", "installing", validPackages)>>
    /\ streamState' = "open"
    /\ tPc' = "status1"
    /\ iPc' = "idle"
    /\ iValid' = <<>>
    /\ iReq' = NoReq
    /\ lastResp' = Served([NoResp EXCEPT !.op = "install", !.sessionRead = TRUE,
                                         !.reconnectTried = reconnectTried,
                                         !.streamOpened = TRUE, !.sid = sandbox],
                          req.sandbox, req.sandboxId, req.key)

\* The answers of lines 489-526 over all request bodies.
RejectionResponses ==
    {InstallResp(InstallRejection(body), EmptyAfterNormalization(body), FALSE, FALSE) :
        body \in {b \in Bodies : InstallRejection(b) # ""}}

\* The requests that pass lines 489-526: validPackages, whether a sandboxId
\* came with them, and whether the request was empty after normalization.
AcceptedRequests ==
    {[valid |-> ValidPackages(body.items), hasId |-> body.hasId,
      empty |-> EmptyAfterNormalization(body), len |-> Len(body.items),
      versioned |-> \E i \in 1..Len(body.items) :
                       \E k \in 1..Len(body.items[i].s) : body.items[i].s[k] = "@"] :
        body \in {b \in Bodies : InstallRejection(b) = ""}}

\* Lines 489-526: the request is rejected before the registry is read.
InstallRejected ==
    /\ CanStart(iPc)
    /\ \E resp \in RejectionResponses : lastResp' = resp
    /\ UNCHANGED <<coreVars, installVars>>
    /\ UNCHANGED <<createVars, killVars, runVars>>
    /\ UNCHANGED getVars
    /\ Accepted

\* Lines 536, 561-590: a session is current; no reconnect.  One installation
\* is followed at a time: the route takes the next request that will open a
\* stream when the task of the one before has closed its own.
InstallOnCurrent ==
    /\ CanStart(iPc)
    /\ tPc = "idle"
    /\ activeSandbox # 0
    /\ \E req \in {[valid |-> r.valid, hasId |-> r.hasId] :
                      r \in {q \in AcceptedRequests : InScope(q)}} :
        /\ ~ShouldReconnect(activeSandbox, req.hasId)
        /\ OpenStreamAndStartTask(activeSandbox, req.valid, deps[activeSandbox],
                [sandbox |-> activeSandbox, sandboxId |-> req.hasId,
                 key |-> "unread"], FALSE)
    /\ UNCHANGED coreVars
    /\ UNCHANGED <<createVars, killVars, runVars>>
    /\ UNCHANGED getVars
    /\ Accepted

\* Lines 536-563: no session and no sandboxId in the request.
InstallNoSandbox ==
    /\ CanStart(iPc)
    /\ activeSandbox = 0
    /\ \E req \in {[empty |-> r.empty, hasId |-> r.hasId] : r \in AcceptedRequests} :
        /\ ~ShouldReconnect(activeSandbox, req.hasId)
        /\ lastResp' = Served(InstallResp("SANDBOX_NOT_FOUND", req.empty, TRUE, FALSE),
                              activeSandbox, req.hasId, "unread")
    /\ UNCHANGED <<coreVars, installVars>>
    /\ UNCHANGED <<createVars, killVars, runVars>>
    /\ UNCHANGED getVars
    /\ Accepted

\* Lines 538-546: no session, a sandboxId, and a key that does not validate.
InstallReconnectKeyInvalid ==
    /\ CanStart(iPc)
    /\ \E key \in KeyKinds, req \in {[empty |-> r.empty, hasId |-> r.hasId] :
                                        r \in AcceptedRequests} :
        /\ ShouldReconnect(activeSandbox, req.hasId)
        /\ ~validateE2BApiKey(key)
        /\ lastResp' = Served(InstallResp("MISSING_ENV_VAR", req.empty, TRUE, FALSE),
                              activeSandbox, req.hasId, key)
    /\ UNCHANGED <<coreVars, installVars>>
    /\ UNCHANGED <<createVars, killVars, runVars>>
    /\ UNCHANGED getVars
    /\ Accepted

\* Lines 538-549: no session, a sandboxId and a valid key: Sandbox.connect is
\* called and awaited.
InstallCallConnect ==
    /\ CanStart(iPc)
    /\ tPc = "idle"
    /\ nextId <= MaxSessions
    /\ \E key \in KeyKinds, req \in {[valid |-> r.valid, hasId |-> r.hasId] :
                                        r \in {q \in AcceptedRequests : InScope(q)}} :
        /\ ShouldReconnect(activeSandbox, req.hasId)
        /\ validateE2BApiKey(key)
        /\ iValid' = req.valid
        /\ iReq' = [sandbox |-> activeSandbox, sandboxId |-> req.hasId, key |-> key]
    /\ iPc' = "connecting"
    /\ lastResp' = NoResp
    /\ UNCHANGED <<tPc, tSandbox, tValid, tToInstall, tInstalled, tLines, tTargets,
                   tManifest, tCheck, npmRuns, npmProc, stream, streamState>>
    /\ UNCHANGED coreVars
    /\ UNCHANGED <<createVars, killVars, runVars>>
    /\ UNCHANGED getVars
    /\ Accepted

\* Lines 552-558: Sandbox.connect rejected.
InstallConnectFailed ==
    /\ iPc = "connecting"
    /\ iPc' = "idle"
    /\ iValid' = <<>>
    /\ iReq' = NoReq
    /\ lastResp' = Served(InstallResp("SANDBOX_RECONNECTION_FAILED", FALSE, TRUE, TRUE),
                          iReq.sandbox, iReq.sandboxId, iReq.key)
    /\ UNCHANGED <<tPc, tSandbox, tValid, tToInstall, tInstalled, tLines, tTargets,
                   tManifest, tCheck, npmRuns, npmProc, stream, streamState>>
    /\ UNCHANGED coreVars
    /\ UNCHANGED <<createVars, killVars, runVars>>
    /\ UNCHANGED <<getVars, serial, started>>

\* The package.json files an environment that is reconnected to may hold.
Manifests == SUBSET {lodash, react}

\* Lines 549-551, 567-590: Sandbox.connect resolved with a handle on an
\* environment whose package.json holds any names; the handle becomes the
\* session (sandboxData is left as it is) and the task starts on it.
InstallConnected ==
    /\ iPc = "connecting"
    /\ nextId <= MaxSessions
    /\ \E present \in Manifests :
         /\ deps' = [deps EXCEPT ![nextId] = present]
         /\ OpenStreamAndStartTask(nextId, iValid, present, iReq, TRUE)
    /\ kind' = [kind EXCEPT ![nextId] = "live"]
    /\ nextId' = nextId + 1
    /\ activeSandbox' = nextId
    /\ UNCHANGED <<sandboxData, existingFiles, sandboxState, killCalls,
                   superseded>>
    /\ UNCHANGED <<createVars, killVars, runVars>>
    /\ UNCHANGED <<getVars, serial, started>>

\* ---------------------------------------------- install-packages: task
taskLocals == <<tSandbox, tValid, tToInstall, tInstalled, tLines, tTargets, tManifest,
                tCheck, npmRuns, npmProc>>

\* Mutant of Send: the frame is put in front of what the stream holds.
SendInFront(event, next) ==
    /\ stream' = <<event>> \o stream
    /\ tPc' = next
    /\ lastResp' = NoResp
    /\ UNCHANGED <<iPc, iValid, iReq, streamState>>

\* sendProgress(event), then on to the next operation of the task.
Send(event, next) ==
    /\ stream' = Append(stream, event)
    /\ tPc' = next
    /\ lastResp' = NoResp
    /\ UNCHANGED <<iPc, iValid, iReq, streamState>>

\* A step of the task that writes nothing.
Goto(next) ==
    /\ tPc' = next
    /\ lastResp' = NoResp
    /\ UNCHANGED <<iPc, iValid, iReq, stream, streamState>>

\* Line 593
TaskSendStopping ==
    /\ tPc = "status1"
    /\ Send(Event("status", "stopping", <<>>), "stopVite")
    /\ UNCHANGED <<coreVars, taskLocals>>
    /\ UNCHANGED <<createVars, killVars, runVars>>
    /\ UNCHANGED <<getVars, serial, started>>

\* Lines 595-608: the command that stops the dev server; a rejection goes to
\* the catch at line 890.
TaskStopVite ==
    /\ tPc = "stopVite"
    /\ TaskRunCode
    /\ \/ CanResolve /\ Goto("status2")
       \/ Goto("caught")
    /\ UNCHANGED <<coreVars, tSandbox, tValid, tToInstall, tInstalled, tLines, tManifest,
                   tCheck, npmRuns, npmProc>>
    /\ UNCHANGED <<createVars, killVars, runVars>>
    /\ UNCHANGED <<getVars, serial, started>>

\* Lines 611-614
TaskSendChecking ==
    /\ tPc = "status2"
    /\ Send(Event("status", "checking", <<>>), "check")
    /\ UNCHANGED <<coreVars, taskLocals>>
    /\ UNCHANGED <<createVars, killVars, runVars>>
    /\ UNCHANGED <<getVars, serial, started>>

\* Lines 616-688: the diff against package.json.  The command rejects
\* ("throw"), resolves with the script's NEED_INSTALL line in
\* results[0].text ("diff"), or leaves every package to install
\* ("fallback"): the result has no results[0].text (line 672), or the script
\* could not read package.json and printed every package (lines 655-657).
TaskCheck ==
    /\ tPc = "check"
    /\ TaskRunCode
    /\ \E outcome \in {"throw", "diff", "fallback"} :
        LET need == IF outcome = "diff"
                    THEN NeedInstall(tValid, deps[RunTarget])
                    ELSE tValid
        IN  IF outcome = "throw" \/ ~CanResolve
            THEN /\ Goto("caught")
                 /\ tCheck' = "throw"
                 /\ UNCHANGED tToInstall
            ELSE /\ tToInstall' = need
                 /\ tCheck' = outcome
                 /\ Goto(IF Len(need) = 0 THEN "allInstalled" ELSE "info")
    /\ UNCHANGED <<coreVars, tSandbox, tValid, tInstalled, tLines, tManifest, npmRuns,
                   npmProc>>
    /\ UNCHANGED <<createVars, killVars, runVars>>
    /\ UNCHANGED <<getVars, serial, started>>

\* Mutant of TaskSendAllInstalled: the early return skips the finally.
TaskSendAllInstalledNoFinally ==
    /\ tPc = "allInstalled"
    /\ Send(Event("success", "alreadyInstalled", <<>>), "idle")
    /\ UNCHANGED <<coreVars, taskLocals>>
    /\ UNCHANGED <<createVars, killVars, runVars>>
    /\ UNCHANGED <<getVars, serial, started>>

\* Lines 680-688: nothing to install; one success event, then the finally.
TaskSendAllInstalled ==
    /\ tPc = "allInstalled"
    /\ Send(Event("success", "alreadyInstalled", <<>>), "close")
    /\ UNCHANGED <<coreVars, taskLocals>>
    /\ UNCHANGED <<createVars, killVars, runVars>>
    /\ UNCHANGED <<getVars, serial, started>>

\* Mutant of TaskSendInfo: the message names every requested package.
TaskSendInfoAll ==
    /\ tPc = "info"
    /\ Send(Event("info", "installingNew", tValid), "npm")
    /\ UNCHANGED <<coreVars, taskLocals>>
    /\ UNCHANGED <<createVars, killVars, runVars>>
    /\ UNCHANGED <<getVars, serial, started>>

\* Lines 691-696
TaskSendInfo ==
    /\ tPc = "info"
    /\ Send(Event("info", "installingNew", tToInstall), "npm")
    /\ UNCHANGED <<coreVars, taskLocals>>
    /\ UNCHANGED <<createVars, killVars, runVars>>
    /\ UNCHANGED <<getVars, serial, started>>

\* What can have become of the npm process when the install step did not
\* run to its end.  The script arms signal.alarm(60), whose handler raises
\* TimeoutError without touching the process (lines 710-714), and checks the
\* clock in its read loop, where it calls process.kill() first (lines
\* 731-734); runCode has a timeout of its own (line 785), which ends the call
\* and not the process.  "abandoned" is a deadline that passed with the
\* process left running, "killed" one that passed with the process killed,
\* "unknown" a failure that was no deadline.
Deadlines == {"abandoned", "killed"}

\* Lines 698-795 when the command rejects (a thrown error, the runCode
\* timeout, or the script's TimeoutError if the provider rejects for an error
\* of the script): npm may have added any of the packages before it stopped.
TaskNpmThrew ==
    /\ tPc = "npm"
    /\ TaskRunCode
    /\ npmRuns' = npmRuns + 1
    /\ npmProc' \in (IF CanResolve THEN Deadlines ELSE {}) \cup {"unknown"}
    /\ \E added \in SUBSET {PackageName(tToInstall[i]) : i \in 1..Len(tToInstall)} :
         deps' = IF CanResolve
                 THEN [deps EXCEPT ![RunTarget] = @ \cup added]
                 ELSE deps
    /\ Goto("npmError")
    /\ UNCHANGED <<activeSandbox, sandboxData, existingFiles, sandboxState, nextId,
                   kind, killCalls, superseded>>
    /\ UNCHANGED <<tSandbox, tValid, tToInstall, tInstalled, tLines, tManifest, tCheck>>
    /\ UNCHANGED <<createVars, killVars, runVars>>
    /\ UNCHANGED <<getVars, serial, started>>

\* Lines 698-828 when the command resolves: npm added some of the packages
\* to package.json, the script printed its lines (or the result carries no
\* output at all), and installedPackages is read back from them.
TaskNpmResolved ==
    /\ tPc = "npm"
    /\ CanResolve
    /\ TaskRunCode
    /\ npmRuns' = npmRuns + 1
    /\ npmProc' = "exited"
    /\ \E added \in SUBSET {PackageName(tToInstall[i]) : i \in 1..Len(tToInstall)},
          run \in NpmRuns,
          hasOutput \in BOOLEAN :
        /\ serial \/ run.stderr = "none"
        /\ LET now == deps[RunTarget] \cup added
               lines == IF hasOutput
                        THEN ScriptOutput(tToInstall, run.stdout, run.stderr, now)
                        ELSE <<>>
           IN  /\ deps' = [deps EXCEPT ![RunTarget] = now]
               /\ tLines' = lines
               /\ tInstalled' = ParseInstalled(VerifiedRepr(lines))
    /\ Goto("lines")
    /\ UNCHANGED <<activeSandbox, sandboxData, existingFiles, sandboxState, nextId,
                   kind, killCalls, superseded>>
    /\ UNCHANGED <<tSandbox, tValid, tToInstall, tManifest, tCheck>>
    /\ UNCHANGED <<createVars, killVars, runVars>>
    /\ UNCHANGED <<getVars, serial, started>>

\* Lines 710-714, 731-734, 774-776 when the provider resolves runCode although
\* the script raised: a deadline of the script passed, the script printed
\* INSTALL_STATUS:TIMEOUT after what it had printed so far and raised again;
\* the verification never ran, so the output has no "Verified" line.
TaskNpmTimedOut ==
    /\ tPc = "npm"
    /\ CanResolve
    /\ TaskRunCode
    /\ npmRuns' = npmRuns + 1
    /\ npmProc' \in Deadlines
    /\ \E added \in SUBSET {PackageName(tToInstall[i]) : i \in 1..Len(tToInstall)} :
         deps' = [deps EXCEPT ![RunTarget] = @ \cup added]
    /\ tLines' = <<PlainLine("running"), PlainLine("timeout")>>
    /\ tInstalled' = ParseInstalled(VerifiedRepr(tLines'))
    /\ Goto("lines")
    /\ UNCHANGED <<activeSandbox, sandboxData, existingFiles, sandboxState, nextId,
                   kind, killCalls, superseded>>
    /\ UNCHANGED <<tSandbox, tValid, tToInstall, tManifest, tCheck>>
    /\ UNCHANGED <<createVars, killVars, runVars>>
    /\ UNCHANGED <<getVars, serial, started>>

\* Lines 786-795
TaskSendNpmError ==
    /\ tPc = "npmError"
    /\ Send(Event("error", "npmFailed", tToInstall), "close")
    /\ UNCHANGED <<coreVars, taskLocals>>
    /\ UNCHANGED <<createVars, killVars, runVars>>
    /\ UNCHANGED <<getVars, serial, started>>

\* Lines 800-817: the next line of the output becomes an event, or nothing.
TaskSendLine ==
    /\ tPc = "lines"
    /\ tLines # <<>>
    /\ tLines' = Tail(tLines)
    /\ IF ClassifyLine(Head(tLines)) = "none"
       THEN Goto("lines")
       ELSE Send(Event(ClassifyLine(Head(tLines)), Head(tLines).tag, <<>>), "lines")
    /\ UNCHANGED <<coreVars, tSandbox, tValid, tToInstall, tInstalled, tTargets,
                   tManifest, tCheck, npmRuns, npmProc>>
    /\ UNCHANGED <<createVars, killVars, runVars>>
    /\ UNCHANGED <<getVars, serial, started>>

\* Lines 830-841: the verdict of the verification.
TaskSendVerdict ==
    /\ tPc = "lines"
    /\ tLines = <<>>
    /\ IF Len(tInstalled) > 0
       THEN Send(Event("success", "installed", tInstalled), "status3")
       ELSE Send(Event("error", "notVerified", <<>>), "status3")
    /\ UNCHANGED <<coreVars, taskLocals>>
    /\ UNCHANGED <<createVars, killVars, runVars>>
    /\ UNCHANGED <<getVars, serial, started>>

\* Line 844
TaskSendRestarting ==
    /\ tPc = "status3"
    /\ Send(Event("status", "restarting", <<>>), "restart")
    /\ UNCHANGED <<coreVars, taskLocals>>
    /\ UNCHANGED <<createVars, killVars, runVars>>
    /\ UNCHANGED <<getVars, serial, started>>

\* Lines 846-882: the command that restarts the dev server.
TaskRestart ==
    /\ tPc = "restart"
    /\ TaskRunCode
    /\ \/ CanResolve /\ Goto("complete")
       \/ Goto("caught")
    /\ UNCHANGED <<coreVars, tSandbox, tValid, tToInstall, tInstalled, tLines, tManifest,
                   tCheck, npmRuns, npmProc>>
    /\ UNCHANGED <<createVars, killVars, runVars>>
    /\ UNCHANGED <<getVars, serial, started>>

\* Lines 884-888
TaskSendComplete ==
    /\ tPc = "complete"
    /\ Send(Event("complete", "complete", tInstalled), "close")
    /\ UNCHANGED <<coreVars, taskLocals>>
    /\ UNCHANGED <<createVars, killVars, runVars>>
    /\ UNCHANGED <<getVars, serial, started>>

\* Lines 890-898: the catch of the task.
TaskSendCaught ==
    /\ tPc = "caught"
    /\ Send(Event("error", "PACKAGE_INSTALL_ERROR", <<>>), "close")
    /\ UNCHANGED <<coreVars, taskLocals>>
    /\ UNCHANGED <<createVars, killVars, runVars>>
    /\ UNCHANGED <<getVars, serial, started>>

\* Lines 899-905: the finally of the task closes the writer; the task and its
\* stream are gone.
TaskClose ==
    /\ tPc = "close"
    /\ streamState' = "closed"
    /\ tPc' = "idle"
    /\ lastResp' = NoResp
    /\ tSandbox' = 0
    /\ tValid' = <<>>
    /\ tToInstall' = <<>>
    /\ tInstalled' = <<>>
    /\ tLines' = <<>>
    /\ tTargets' = {}
    /\ tManifest' = {}
    /\ tCheck' = "none"
    /\ npmRuns' = 0
    /\ npmProc' = "none"
    /\ stream' = <<>>
    /\ UNCHANGED <<iPc, iValid, iReq>>
    /\ UNCHANGED coreVars
    /\ UNCHANGED <<createVars, killVars, runVars>>
    /\ UNCHANGED <<getVars, serial, started>>

vars == <<coreVars, createVars, killVars, runVars, getVars, installVars, lastResp,
         serial, started>>

Next ==
    \/ CreateDemoByConfig
    \/ CreateKeyInvalid
    \/ CreateKillPrior
    \/ CreateNoPrior
    \/ CreateKillSettled
    \/ CreateProviderFailed
    \/ CreateProviderOk
    \/ CreateGetHostThrew
    \/ CreateSetupOk
    \/ CreateSetupThrew
    \/ CreateSetupCleanupSettled
    \/ CreateDepsSettled
    \/ CreateViteSettled
    \/ CreateDelayElapsed
    \/ CreateStoreLive
    \/ CreateTouchThrew
    \/ CreateErrorCleanupSettled
    \/ KillCallClose
    \/ KillMock
    \/ KillNoSession
    \/ KillCloseSettled
    \/ RunNoCommand
    \/ RunNoSandbox
    \/ RunDemo
    \/ RunCallRunCode
    \/ RunSettled
    \/ GetNoSandbox
    \/ GetMockThrew
    \/ GetCallRunCode
    \/ GetSettled
    \/ InstallRejected
    \/ InstallOnCurrent
    \/ InstallNoSandbox
    \/ InstallReconnectKeyInvalid
    \/ InstallCallConnect
    \/ InstallConnectFailed
    \/ InstallConnected
    \/ TaskSendStopping
    \/ TaskStopVite
    \/ TaskSendChecking
    \/ TaskCheck
    \/ TaskSendAllInstalled
    \/ TaskSendInfo
    \/ TaskNpmThrew
    \/ TaskNpmResolved
    \/ TaskNpmTimedOut
    \/ TaskSendNpmError
    \/ TaskSendLine
    \/ TaskSendVerdict
    \/ TaskSendRestarting
    \/ TaskRestart
    \/ TaskSendComplete
    \/ TaskSendCaught
    \/ TaskClose

Spec == Init /\ [][Next]_vars

\* The serial runs alone.
SerialInit == Init /\ serial = TRUE

SerialSpec == SerialInit /\ [][Next]_vars

\* A step of the install task.  The task is a chain of promise continuations:
\* once the write or the remote command it awaits has settled, the event
\* loop runs its next step.
TaskStep ==
    \/ TaskSendStopping \/ TaskStopVite \/ TaskSendChecking \/ TaskCheck
    \/ TaskSendAllInstalled \/ TaskSendInfo \/ TaskNpmThrew \/ TaskNpmResolved
    \/ TaskNpmTimedOut
    \/ TaskSendNpmError \/ TaskSendLine \/ TaskSendVerdict \/ TaskSendRestarting
    \/ TaskRestart \/ TaskSendComplete \/ TaskSendCaught \/ TaskClose

\* Serial runs in which every awaited write and command of the task settles.
FairSerialSpec == SerialInit /\ [][Next]_vars /\ WF_vars(TaskStep)

\* ================================================================ claims
\* The types of the events of a stream, in order.
Types(events) == [i \in 1..Len(events) |-> events[i].type]

\* The positions of the events of one type.
Of(events, type) == {i \in 1..Len(events) : events[i].type = type}

\* The task is at its finally: the stream holds every event of the run.
AtFinally == tPc = "close"

\* No remote command of the run rejected into the catch of the task.
NoCommandThrew == \A i \in 1..Len(stream) : stream[i].msg # "PACKAGE_INSTALL_ERROR"

\* Every requested package was in package.json when the install started.
AllPresent == \A i \in 1..Len(tValid) : CheckName(tValid[i]) \in tManifest

\* ---- C1
\* C1: when a create call has returned a session (live, fallback demo or demo
\* by configuration), a live or demo session is current and every session a
\* create call displaced had kill() called on it exactly once.
C1_SessionSingularity ==
    (lastResp.op = "create" /\ lastResp.success # "false") =>
        /\ activeSandbox # 0
        /\ kind[activeSandbox] \in {"live", "mock"}
        /\ \A h \in superseded : killCalls[h] = 1

\* ---- C2
\* C2: an open stream is eventually closed, whatever path the task leaves
\* by, and nothing is written to a stream that is not open.
C2_StreamClosed ==
    /\ (streamState = "open") ~> (streamState = "closed")
    /\ [][streamState # "open" => (stream' = stream \/ streamState' = "open")]_vars

\* A remote command threw, the catch wrote its error event, and the finally
\* is about to close the stream.
C2_Witness ==
    /\ AtFinally
    /\ streamState = "open"
    /\ stream[Len(stream)].msg = "PACKAGE_INSTALL_ERROR"

InstalledSecondOfTwo ==
    /\ AtFinally
    /\ Len(tValid) = 2
    /\ CheckName(tValid[1]) \in tManifest
    /\ CheckName(tValid[2]) \notin tManifest
    /\ tCheck = "diff"
    /\ NoCommandThrew
    /\ tInstalled = <<tValid[2]>>

LineEventTypes == {"output", "warning", "error"}

C5_DemoFallback ==
    (lastResp.op = "create" /\ (lastResp.keyMissing \/ lastResp.via = "providerFailed")) =>
        /\ lastResp.success # "false"
        /\ lastResp.isDemo
        /\ lastResp.sid # 0
        /\ activeSandbox = lastResp.sid
        /\ kind[activeSandbox] = "mock"
        /\ sandboxData = [sandboxId |-> lastResp.sid, isDemo |-> TRUE]

\* Sandbox.create failed after a prior session was killed; the fallback
\* session is current.
C5_Witness ==
    /\ lastResp.via = "providerFailed"
    /\ activeSandbox = lastResp.sid
    /\ superseded # {}

\* ---- C6
\* C6: when kill-sandbox answers, global.activeSandbox is null and the
\* tracked file set is empty, whether close() resolved or threw.
C6_KillClears ==
    lastResp.op = "kill" => (activeSandbox = 0 /\ existingFiles.paths = {})

\* close() of a live session threw and the route answered.
C6_Witness ==
    /\ lastResp.op = "kill"
    /\ lastResp.via = "closeThrew"
    /\ existingFiles.defined
    /\ activeSandbox = 0

\* ---- C7
\* C7: while a create call that found a live session current is being
\* served, a run-command request never finds the registry empty.
C7_AtomicReplacement ==
    ~(/\ cPc # "idle"
      /\ cPrior # 0
      /\ kind[cPrior] = "live"
      /\ lastResp.op = "run"
      /\ lastResp.via = "noSandbox")

\* ---- C8
\* C8: every runCode call of an install task is made on the session the task
\* started with.
C8_TaskKeepsItsSession == \A call \in tTargets : call[1] = tSandbox

\* A command of the task went to its session after a create call had made
\* another session the current one.
C8_Witness ==
    /\ \E call \in tTargets : call[1] = tSandbox /\ ~call[2]
    /\ activeSandbox \notin {0, tSandbox}
    /\ tPc = "complete"

\* ---- C9
\* C9: a request whose `packages` is no array, an empty array, or holds only
\* blank and non-string entries is answered with a validation error, and the
\* route has then neither read the registry, nor tried to reconnect, nor
\* opened a stream; no reconnect and no task ever runs for such a request.
C9_EmptyRejectedFirst ==
    /\ (lastResp.op = "install" /\ lastResp.emptyRequest) =>
           /\ lastResp.success = "false"
           /\ lastResp.errorCode \in {"MISSING_PARAMETER", "INVALID_PACKAGES_FORMAT",
                                      "NO_VALID_PACKAGES"}
           /\ ~lastResp.sessionRead
           /\ ~lastResp.reconnectTried
           /\ ~lastResp.streamOpened
    /\ iPc = "connecting" => iValid # <<>>
    /\ tPc # "idle" => tValid # <<>>

\* An array of blank entries was rejected while a session was current.
C9_Witness ==
    /\ lastResp.op = "install"
    /\ lastResp.emptyRequest
    /\ lastResp.errorCode = "NO_VALID_PACKAGES"
    /\ activeSandbox # 0

\* ---- C10
\* C10: no name occurs twice in the validPackages a task works on.
C10_NoDuplicates ==
    tPc # "idle" =>
        \A i, j \in 1..Len(tValid) : i # j => tValid[i] # tValid[j]

\* ---- C11
\* C11: an install request that gets as far as the registry is served on the
\* current session when there is one, with no reconnect; with no current
\* session and a sandboxId it goes to the reconnect (which either refuses the
\* key or calls connect); with neither it is answered SANDBOX_NOT_FOUND with no
\* reconnect and no stream.  A reconnect is only ever under way for a request
\* that found no session and carried a sandboxId.
C11_ResolutionOrder ==
    /\ (lastResp.op = "install" /\ lastResp.sessionRead) =>
           IF lastResp.current # 0
           THEN /\ lastResp.streamOpened
                /\ lastResp.sid = lastResp.current
                /\ ~lastResp.reconnectTried
           ELSE IF lastResp.hasId
           THEN /\ lastResp.reconnectTried \/ lastResp.errorCode = "MISSING_ENV_VAR"
                /\ lastResp.streamOpened => lastResp.reconnectTried
           ELSE /\ lastResp.errorCode = "SANDBOX_NOT_FOUND"
                /\ lastResp.success = "false"
                /\ ~lastResp.reconnectTried
                /\ ~lastResp.streamOpened
    /\ iPc = "connecting" => iReq.sandbox = 0 /\ iReq.sandboxId

\* With no session, one request without a sandboxId was answered
\* SANDBOX_NOT_FOUND; the handles show that an earlier request had reconnected.
C11_Witness ==
    /\ lastResp.op = "install"
    /\ lastResp.errorCode = "SANDBOX_NOT_FOUND"
    /\ ~lastResp.hasId
    /\ activeSandbox = 0
    /\ \E h \in Handles : kind[h] = "live" /\ deps[h] # SkeletonDeps /\ h \in superseded

\* ---- C12
\* C12: Sandbox.connect is called only with a key that validates; a request
\* whose key does not validate is answered MISSING_ENV_VAR with no connect, no
\* stream and no session; and the step in which connect fails leaves
\* activeSandbox (empty), sandboxData, the tracker and every handle as they
\* were, opens no stream and answers SANDBOX_RECONNECTION_FAILED.
C12_ReconnectAllOrNothing ==
    /\ [](iPc = "connecting" => iReq.key = "valid")
    /\ []((lastResp.op = "install" /\ lastResp.reconnectTried) => lastResp.key = "valid")
    /\ []((lastResp.op = "install" /\ lastResp.key \notin {"unread", "valid"}) =>
              /\ lastResp.errorCode = "MISSING_ENV_VAR"
              /\ lastResp.success = "false"
              /\ ~lastResp.reconnectTried
              /\ ~lastResp.streamOpened
              /\ activeSandbox = 0)
    /\ [][(iPc = "connecting" /\ iPc' = "idle" /\ ~lastResp'.streamOpened) =>
              /\ lastResp'.errorCode = "SANDBOX_RECONNECTION_FAILED"
              /\ lastResp'.success = "false"
              /\ lastResp'.reconnectTried
              /\ activeSandbox = 0
              /\ UNCHANGED <<activeSandbox, sandboxData, existingFiles, kind, deps,
                             nextId, tPc, stream, streamState>>]_vars

\* Sandbox.connect was called with a valid key and rejected; no session is
\* current afterwards.
C12_Witness ==
    /\ lastResp.op = "install"
    /\ lastResp.errorCode = "SANDBOX_RECONNECTION_FAILED"
    /\ lastResp.key = "valid"
    /\ activeSandbox = 0

\* ---- C13
\* C13: when the setup script throws, kill() is called on the sandbox just
\* created; create then answers SANDBOX_SETUP_FAILED with that sandbox not the
\* session; and no sandbox on which kill() was ever called becomes the session
\* afterwards.
C13_SetupFailureTearsDown ==
    /\ [][(cPc = "setup" /\ cPc' \notin {"setup", "deps"}) =>
              /\ cPc' = "setupCleanup"
              /\ cSandbox' = cSandbox
              /\ killCalls'[cSandbox] = killCalls[cSandbox] + 1]_vars
    /\ [][(cPc = "setupCleanup" /\ cPc' # "setupCleanup") =>
              /\ cPc' = "idle"
              /\ lastResp'.op = "create"
              /\ lastResp'.success = "false"
              /\ lastResp'.errorCode = "SANDBOX_SETUP_FAILED"
              /\ killCalls[cSandbox] > 0
              /\ activeSandbox' # cSandbox]_vars
    /\ [][(activeSandbox' # activeSandbox /\ activeSandbox' # 0) =>
              killCalls[activeSandbox'] = 0]_vars

\* A create answered SANDBOX_SETUP_FAILED after calling kill() on its new
\* sandbox; the session it had found current was killed before.
C13_Witness ==
    /\ lastResp.op = "create"
    /\ lastResp.errorCode = "SANDBOX_SETUP_FAILED"
    /\ activeSandbox = 0
    /\ \E h \in Handles : killCalls[h] = 1 /\ h \notin superseded
    /\ superseded # {}

\* ---- C14
\* C14: a create that has written the skeleton never takes the failure path:
\* whatever the dependency install, the dev server start and the stylesheet
\* touch do, it does not end up calling kill() on its sandbox and answering
\* with an error.
C14_LaterStepsDoNotFail ==
    cPc = "errorCleanup" => deps[cSandbox] # SkeletonDeps

\* ---- C15
\* C15: when create has answered with a session, the tracker holds only what
\* that create recorded: nothing for a mock session (by configuration or after
\* a provider failure), the skeleton's files for a live one; and when kill has
\* answered the tracker is empty.
C15_TrackerFollowsSession ==
    /\ (lastResp.op = "create" /\ lastResp.success # "false") =>
           existingFiles.paths = (IF lastResp.isDemo THEN {} ELSE InitialFiles)
    /\ (lastResp.op = "kill" /\ lastResp.success = "true") =>
           existingFiles.paths = {}

\* ---- C16
\* C16: while the session is a mock, every answer of create, run-command,
\* get-sandbox-files and install-packages to a request that got as far as the
\* session carries isDemo: true.  (Requests rejected for their own content
\* before the session is looked at and creates that fail are left out, and so
\* is kill, after which no session is current.)
C16_DemoResponsesTagged ==
    (/\ activeSandbox # 0
     /\ kind[activeSandbox] = "mock"
     /\ lastResp.op \in {"create", "run", "files", "install"}
     /\ lastResp.via # "noCommand"
     /\ lastResp.op = "install" => lastResp.sessionRead
     /\ lastResp.op = "create" => lastResp.success # "false")
        => lastResp.isDemo

\* ---- C17
\* C17: a run whose diff found every requested package in package.json ends
\* its stream with the success event followed by a complete event.
C17_NothingToInstallCompletes ==
    (AtFinally /\ AllPresent /\ tCheck = "diff") =>
        LET n == Len(stream)
        IN  /\ n >= 2
            /\ stream[n - 1].type = "success"
            /\ stream[n].type = "complete"

\* ---- C18
\* C18: a run that ran npm install, and in which no other command threw, has
\* announced the restart of the dev server and written a complete event when
\* it reaches its finally.
C18_InstallStepAlwaysRestarts ==
    (AtFinally /\ npmRuns > 0 /\ NoCommandThrew) =>
        /\ \E i \in Of(stream, "status") : stream[i].msg = "restarting"
        /\ Of(stream, "complete") # {}

\* ---- C19
\* C19: the stream changes only in a step of the task (or in the step of the
\* route that opens it and starts the task, or when the closed stream is
\* dropped); a step of the task adds exactly one event, at the end, to an
\* open stream, and leaves the events before it as they were.
C19_TaskIsOnlyWriterInOrder ==
    [][stream' # stream =>
          \/ /\ tPc = "idle"
             /\ tPc' = "status1"
             /\ InstallOnCurrent \/ InstallConnected
             /\ Types(stream') = <<"start">>
          \/ /\ tPc \notin {"idle", "close"}
             /\ TaskStep
             /\ streamState = "open"
             /\ Len(stream') = Len(stream) + 1
             /\ SubSeq(stream', 1, Len(stream)) = stream
          \/ /\ tPc = "close"
             /\ TaskClose
             /\ streamState' = "closed"]_vars

\* A whole run is on the stream: both packages went through npm install, its
\* output was passed on line by line, and complete is the last event.
C19_Witness ==
    /\ AtFinally
    /\ Len(tToInstall) = 2
    /\ Len(stream) >= 8
    /\ Of(stream, "output") # {}
    /\ stream[Len(stream)].type = "complete"

\* ---- C20
\* C20: when the task reaches its finally, the stream it is about to close
\* holds a complete event or an error event.
C20_TerminalEventBeforeClose ==
    (AtFinally /\ streamState = "open") =>
        (Of(stream, "complete") \cup Of(stream, "error")) # {}

\* ---- C21
\* C21: when a run in which the install step passed a deadline reaches its
\* finally, the npm process was killed, the stream holds the error event that
\* carries the message of the failure ("npm install failed: ..."), and it
\* holds no success event.
C21_DeadlineKillsAndReports ==
    (AtFinally /\ npmProc \in Deadlines) =>
        /\ npmProc = "killed"
        /\ \E i \in Of(stream, "error") : stream[i].msg = "npmFailed"
        /\ Of(stream, "success") = {}

\* ---- C22
\* The packages of packagesToInstall that package.json of the task's sandbox
\* lists now, in the order requested.
RECURSIVE NowPresent(_)
NowPresent(packages) ==
    IF packages = <<>> THEN <<>>
    ELSE IF PackageName(Head(packages)) \in deps[tSandbox]
         THEN <<Head(packages)>> \o NowPresent(Tail(packages))
         ELSE NowPresent(Tail(packages))

\* The verdict events of a stream.
Verdicts == {i \in 1..Len(stream) : stream[i].msg \in {"installed", "notVerified"}}

\* C22: when the install script ran to its end and its output was read, the
\* task writes one verdict: a success event that lists the packages of
\* packagesToInstall now in package.json if there is one, else an error event.
C22_OneVerdict ==
    (tPc = "status3" /\ npmProc = "exited" /\ Of(stream, "output") # {}) =>
        /\ Cardinality(Verdicts) = 1
        /\ Verdicts = {Len(stream)}
        /\ IF NowPresent(tToInstall) # <<>>
           THEN /\ stream[Len(stream)].type = "success"
                /\ stream[Len(stream)].pkgs = NowPresent(tToInstall)
           ELSE stream[Len(stream)].type = "error"

\* ---- C23
\* The requested packages whose name is no key of the package.json the
\* installation started from, in the order requested.
RECURSIVE NotListed(_)
NotListed(packages) ==
    IF packages = <<>> THEN <<>>
    ELSE IF PackageName(Head(packages)) \in tManifest
         THEN NotListed(Tail(packages))
         ELSE <<Head(packages)>> \o NotListed(Tail(packages))

\* C23: when the task has read the diff, packagesToInstall holds exactly the
\* requested packages whose name is not a key of package.json (the others are
\* the already-satisfied ones), whatever version a request names.
C23_DiffByName ==
    tCheck = "diff" => tToInstall = NotListed(tValid)

\* ---- C24
\* The conventional entry filenames of lines 184-191, in the priority order
\* that agrees with the code wherever the code has one: a main or index file
\* beats an App file, and the App.jsx of the root, which the walk always
\* meets first, beats src/App.jsx.
EntryPriority == <<srcMainJsx, srcIndexJsx, AppJsx, srcAppJsx>>

\* The paths of the files a manifest build was given.
Listed(resp) ==
    {files_content(resp.tree)[i].relativePath :
       i \in 1..Len(files_content(resp.tree))}

\* A successful manifest build.
Built == lastResp.op = "files" /\ lastResp.success = "true"

\* C24: when a manifest build was given two conventional entry files, its
\* entry point is the one that comes first in the priority list, in whatever
\* order the enumeration returned them.
C24_EntryPointByPriority ==
    Built =>
      \A i, j \in 1..Len(EntryPriority) :
        (/\ i < j
         /\ EntryPriority[i] \in Listed(lastResp)
         /\ EntryPriority[j] \in Listed(lastResp)) =>
          lastResp.manifest.entryPoint = AppDir \o EntryPriority[i]

\* ---- C25
\* The absolute paths that are keys of a manifest's file map.
Keys(manifest) == {manifest.files[i].path : i \in 1..Len(manifest.files)}

\* The paths the warnings of a build result name.
Warned(resp) == {resp.warnings[i].about : i \in 1..Len(resp.warnings)}

\* C25: a file of the enumerated tree whose size in bytes is over the limit
\* is not in the file map of the manifest and is named in the warnings of
\* the build result, which is a success.
C25_OversizeSkippedAndWarned ==
    lastResp.op = "files" =>
      \A i \in 1..Len(lastResp.tree) :
        lastResp.tree[i].bytes > SizeLimit =>
          /\ lastResp.success = "true"
          /\ AppDir \o lastResp.tree[i].relativePath \notin Keys(lastResp.manifest)
          /\ lastResp.tree[i].relativePath \in Warned(lastResp)

\* The same with the size taken as Python's len of the decoded text, the
\* measure of line 45.
C25_OverInCharacters ==
    lastResp.op = "files" =>
      \A i \in 1..Len(lastResp.tree) :
        lastResp.tree[i].chars > SizeLimit =>
          /\ lastResp.success = "true"
          /\ AppDir \o lastResp.tree[i].relativePath \notin Keys(lastResp.manifest)
          /\ lastResp.tree[i].relativePath \in Warned(lastResp)

\* ---- C26
RECURSIVE LastDot(_)
LastDot(s) ==
    IF s = <<>> THEN 0
    ELSE IF s[Len(s)] = "." THEN Len(s)
    ELSE LastDot(SubSeq(s, 1, Len(s) - 1))

\* A file name without its extension: what precedes its last dot.
WithoutExtension(s) == IF LastDot(s) = 0 THEN s ELSE SubSeq(s, 1, LastDot(s) - 1)

UnderPages(relativePath) ==
    \/ StartsWith(relativePath, pagesSlash)
    \/ StartsWith(relativePath, srcSlash \o pagesSlash)

\* The route the convention gives a file under a pages directory.
ConventionRoute(relativePath) ==
    <<"/">> \o DropSuffix(WithoutExtension(DropPagesDir(relativePath)), indexWord)

\* C26: every file a manifest build was given under pages/ or src/pages/ has
\* a route that is '/' followed by its path below that directory without the
\* file extension and without a trailing 'index'.
C26_PagesRoutes ==
    Built =>
      \A relativePath \in Listed(lastResp) :
        UnderPages(relativePath) =>
          \E i \in 1..Len(lastResp.manifest.routes) :
            /\ lastResp.manifest.routes[i].component = AppDir \o relativePath
            /\ lastResp.manifest.routes[i].path = ConventionRoute(relativePath)

\* The same for the files with a script extension (.js, .jsx, .ts, .tsx).
C26_ScriptPagesRoutes ==
    Built =>
      \A relativePath \in Listed(lastResp) :
        (UnderPages(relativePath) /\ IsScript(relativePath)) =>
          \E i \in 1..Len(lastResp.manifest.routes) :
            /\ lastResp.manifest.routes[i].component = AppDir \o relativePath
            /\ lastResp.manifest.routes[i].path = ConventionRoute(relativePath)

\* ---- C27
\* The files a manifest build was given whose parse threw.
Unparsed(resp) ==
    {i \in 1..Len(files_content(resp.tree)) :
       /\ IsScript(files_content(resp.tree)[i].relativePath)
       /\ files_content(resp.tree)[i].parse = "threw"}

\* C27: a build over files some of which failed to parse still succeeds
\* with one record per file it was given, under the file's absolute path and
\* with the file's content; the record of a file whose parse threw is the
\* minimal one, of the default kind utility.
C27_ParseFailureKeepsMinimalRecord ==
    (lastResp.op = "files" /\ lastResp.via = "files") =>
      LET given == files_content(lastResp.tree)
          files == lastResp.manifest.files
      IN  /\ lastResp.success = "true"
          /\ Len(files) = Len(given)
          /\ \A i \in 1..Len(given) :
                /\ files[i].path = AppDir \o given[i].relativePath
                /\ files[i].relativePath = given[i].relativePath
                /\ files[i].content = [chars |-> given[i].chars,
                                       bytes |-> given[i].bytes]
          /\ \A i \in Unparsed(lastResp) :
                files[i].type = "utility" /\ ~files[i].parsed

\* A build given a file whose parse threw and, after it, one that parsed.
C27_Witness ==
    /\ Built
    /\ \E i \in Unparsed(lastResp) :
         \E j \in 1..Len(lastResp.manifest.files) :
           i < j /\ lastResp.manifest.files[j].parsed

\* ---- C28
\* C28: every response of an operation is an error envelope, with
\* success=false and a non-empty errorCode, or a success envelope, with
\* success=true.
C28_EnvelopeOnEveryResponse ==
    lastResp.op # "none" =>
      \/ lastResp.success = "false" /\ lastResp.errorCode # ""
      \/ lastResp.success = "true"

\* ---- C29
\* The steps of create-ai-sandbox and of kill-sandbox.
CreateStep ==
    \/ CreateDemoByConfig \/ CreateKeyInvalid \/ CreateKillPrior \/ CreateNoPrior
    \/ CreateKillSettled \/ CreateProviderFailed \/ CreateProviderOk
    \/ CreateGetHostThrew \/ CreateSetupOk \/ CreateSetupThrew
    \/ CreateSetupCleanupSettled \/ CreateDepsSettled \/ CreateViteSettled
    \/ CreateDelayElapsed \/ CreateStoreLive \/ CreateTouchThrew
    \/ CreateErrorCleanupSettled

KillStep == KillCallClose \/ KillMock \/ KillNoSession \/ KillCloseSettled

\* C29 as stated: an install leaves the current-session reference as it
\* found it.  When requests come one at a time, the reference an install
\* read at its start is still the current one when it answers.
C29_InstallLeavesSession ==
    (serial /\ lastResp.op = "install" /\ lastResp.sessionRead) =>
        activeSandbox = lastResp.current

\* C29, amended: global.activeSandbox and global.existingFiles are changed
\* only by a step of create, by a step of kill, and by the install route
\* when its reconnect succeeds, which stores the reconnected session and
\* leaves the tracker alone.  Every step of a manifest build, of a
\* run-command and of an installation task leaves both unchanged.
C29_SessionAndTrackerWriters ==
    [][(activeSandbox' # activeSandbox \/ existingFiles' # existingFiles) =>
         \/ CreateStep
         \/ KillStep
         \/ InstallConnected /\ existingFiles' = existingFiles]_vars

\* A manifest build, a run-command or an install on the current session has
\* answered while a session is current and the tracker holds its files.
C29_Witness ==
    /\ activeSandbox # 0
    /\ existingFiles.paths # {}
    /\ \/ Built
       \/ lastResp.op = "run" /\ lastResp.via = "ran"
       \/ lastResp.op = "install" /\ lastResp.streamOpened /\ ~lastResp.reconnectTried

\* ---- C30
\* C30: when the kill of the prior session has thrown, create is at its
\* next step, the call of the provider, with the tracker reset, and the
\* prior session is not the current one; with requests one at a time, no
\* session is current until create stores the new one.
C30_PriorKillFailureSwallowed ==
    lastResp.via = "priorKillThrew" =>
        /\ cPc = "creating"
        /\ cPrior # 0
        /\ activeSandbox # cPrior
        /\ serial => activeSandbox = 0
        /\ existingFiles.paths = {}
        /\ lastResp.op = "none"

\* The kill of a live prior session has thrown during create.
C30_Witness ==
    /\ lastResp.via = "priorKillThrew"
    /\ cPrior # 0
    /\ kind[cPrior] = "live"
    /\ killCalls[cPrior] > 0

\* ---- C31
\* The type the first matching marker gives a line, in the order stderr
\* marker, dependency-conflict marker, npm warning marker, anything else.
TypeByFirstMarker(line) ==
    IF "STDERR:" \in line.markers THEN "error"
    ELSE IF "ERESOLVE_ERROR:" \in line.markers THEN "warning"
    ELSE IF "npm WARN" \in line.markers THEN "warning"
    ELSE "output"

\* C31: while the task goes through the installer's output, a step that
\* takes a line takes the first one left and appends to the stream nothing,
\* or one event of the type the line's first matching marker gives; a step
\* that takes no line appends nothing.  So every line becomes at most one
\* event, and the events come in the order of the lines.
C31_LinesClassifiedInOrder ==
    [][(tPc = "lines" /\ tPc' = "lines") =>
         IF tLines' # tLines
         THEN /\ tLines # <<>>
              /\ tLines' = Tail(tLines)
              /\ \/ stream' = stream
                 \/ stream' = Append(stream, Event(TypeByFirstMarker(Head(tLines)),
                                                   Head(tLines).tag, <<>>))
         ELSE stream' = stream]_vars

\* An output whose lines were all taken: the npm warning, then the stderr
\* line that also holds an npm warning, sent as an error, then the conflict
\* line, and no event for the line with the word undefined.
C31_Witness ==
    /\ tPc = "lines"
    /\ tLines = <<>>
    /\ \E i, j, k \in 1..Len(stream) :
         /\ i < j /\ j < k
         /\ stream[i] = Event("warning", "npm", <<>>)
         /\ stream[j] = Event("error", "stderr", <<>>)
         /\ stream[k] = Event("warning", "eresolve", <<>>)
    /\ \A i \in 1..Len(stream) : stream[i].msg # "undef"

\* ---- C32
\* C32: whenever a session is current, global.sandboxData holds that
\* session's id, and its isDemo flag is set exactly when the session is a
\* mock one.
C32_DataDescribesCurrent ==
    activeSandbox # 0 =>
        /\ sandboxData.sandboxId = activeSandbox
        /\ sandboxData.isDemo = (kind[activeSandbox] = "mock")

\* ---- C33
\* C33: when a manifest build answers for a session that a create has
\* replaced in the meantime, the manifest it built is not the one in the
\* file cache, which is the new session's.
C33_StaleManifestNotCached ==
    (/\ Built
     /\ activeSandbox # 0
     /\ activeSandbox # lastResp.sid
     /\ sandboxState.sandboxId = activeSandbox) =>
        sandboxState.manifestOf # lastResp.sid

\* ---- C34
\* The globals of the registry and the tracker.
Registry == <<activeSandbox, sandboxData, existingFiles, sandboxState>>

\* C34: a kill that finds no session answers success with
\* sandboxKilled=false and leaves the globals as they were; a kill that
\* answers right after a kill has answered leaves them as the first one left
\* them; and a kill answers sandboxKilled=true exactly when it had called
\* close() on the session it found and close() returned.
C34_KillIdempotent ==
    [][/\ KillNoSession =>
            /\ lastResp'.success = "true"
            /\ ~lastResp'.sandboxKilled
            /\ Registry' = Registry
       /\ (lastResp.op = "kill" /\ lastResp'.op = "kill") => Registry' = Registry
       /\ lastResp'.op = "kill" =>
            /\ lastResp'.sandboxKilled = (kPc = "closing" /\ lastResp'.via = "closed")
            /\ activeSandbox' = 0]_vars

\* A kill has answered that found no session, after a live session had been
\* stored by create (sandboxState is its) and cleared by an earlier kill
\* (only kill empties sandboxData).
C34_Witness ==
    /\ lastResp.op = "kill"
    /\ lastResp.via = "noSession"
    /\ sandboxState.sandboxId # 0
    /\ sandboxData = NoData
    /\ existingFiles.defined

====
